---- MODULE Spec2Model ----
(***************************************************************************)
(* Task execution supervision of the Auto-Claude web server               *)
(* (auto-claude-ui/src/web/server.ts): the handle map runningTasks, the   *)
(* watcher map logWatchers, the plan artifact implementation_plan.json,   *)
(* the worker processes, the events broadcast to the observers and the    *)
(* git repository of the project that the merge engine works on.          *)
(* Every request handler and every process or timer callback runs to      *)
(* completion on the single event loop, so each is one action.            *)
(***************************************************************************)
EXTENDS Integers, Sequences, FiniteSets, TLC

\* ------------------------------------------------------------------ bounds
\* worker processes spawned in one behaviour
MaxProcs == 2
\* subtasks of a plan drawn for the status derivation
MaxSubtasks == 3
\* interval timers that can be pending at a time
MaxTimers == 2
\* writes of the worker to the task_logs.json files of a task
MaxWrites == 2
\* merge requests in one behaviour (the values of the clock)
MaxMerges == 2
\* WebSocket connections accepted in one behaviour
MaxSockets == 2
\* messages handed to broadcast() in one behaviour
MaxMessages == 3

Tasks == {"T1"}
Pids == 1..MaxProcs
\* runningTasks.get(taskId) === undefined
NoProc == 0
\* the publisher of an event that a watcher's poll publishes
Watcher == -1
\* the exit code of a child that was terminated by a signal is null
NullCode == -1
\* the code field of an event that carries none
NoCode == -2
ExitCodes == {0, 1, NullCode}
\* the branches of the project repository
Branches == {"main", "dev"}
SubtaskStatuses == {"pending", "in_progress", "completed", "failed"}

VARIABLES
  runningTasks,  \* Map<taskId, RunningTask>: the pid registered, or NoProc
  logWatchers,   \* Map<specId, LogWatcher>: the interval registered
  timers,        \* the intervals setInterval created and nobody cleared,
                 \* each with the variables of its closure
  logs,          \* task_logs.json in the spec directory and in its worktree
                 \* mirror, as content versions (0: no file)
  procs,         \* every ChildProcess spawned so far, by pid
  nextPid,       \* the pid the next spawn gets
  plan,          \* <project>/.auto-claude/specs/<id>/implementation_plan.json
  wtPlan,        \* the copy of the plan inside .worktrees/<id>
  hasWorktree,   \* existsSync(<project>/.worktrees/<id>)
  qaReport,      \* <project>/.auto-claude/specs/<id>/qa_report.md
  head,          \* the branch checked out in the project directory
  published,     \* what broadcast() sent during the last handler or
                 \* callback, in order
  lastReply,     \* the HTTP response of the last handler (NoReply after a
                 \* process or timer callback)
  listing,       \* data of the last GET /api/tasks response
  repo,          \* the git repository in the project directory
  now,           \* the clock that new Date() reads
  merged,        \* the tasks for which a merge request answered success
  wsClients,     \* Set<WebSocket>: the sockets broadcast() iterates over
  sockets,       \* every WebSocket accepted so far: its readyState and what
                 \* was sent on it
  messages,      \* how many messages broadcast() was called with
  logFiles,      \* the documents in the task_logs.json of the spec directory
                 \* and of its worktree mirror
  taskLogs,      \* the logs delivered last, by GET /api/tasks/:id/logs or
                 \* as the payload of a logsChanged event
  callStack      \* the request handler that has begun and not returned, the
                 \* statement it is at, and whether it holds the call stack
                 \* of the event loop

vars == <<runningTasks, logWatchers, timers, logs, procs, nextPid, plan,
          wtPlan, hasWorktree, qaReport, head, published, lastReply, listing,
          repo, now, merged, wsClients, sockets, messages, logFiles,
          taskLogs, callStack>>

\* the state of the WebSocket endpoint
wsVars == <<wsClients, sockets, messages>>

\* the log documents and their delivery
logVars == <<logFiles, taskLogs>>

\* ------------------------------------------------------------ data shapes
\* no request handler has begun without returning
NoHandler == [handler |-> "", onStack |-> FALSE]

\* a phase of a log document: its status, the number of its entries and the
\* copy (main or worktree) its entries were written in; NoPhase is what
\* JavaScript reads for a phase the document does not have (undefined)
NoPhase == [status |-> "", entries |-> 0, copy |-> ""]

\* what loadTaskLogs returns: null (exists is FALSE) for a missing or
\* malformed file, else the document; hasPhases is whether it has a phases
\* object
NoDoc == [exists |-> FALSE, hasPhases |-> FALSE, planning |-> NoPhase,
          coding |-> NoPhase, validation |-> NoPhase]

\* no spec directory has been looked at for log documents
NoLogFiles == [t \in {} |-> [main |-> NoDoc, worktree |-> NoDoc]]

\* no logs were delivered yet
NoTaskLogs == [via |-> "none"]

\* merged_at is the reading of the clock, 0 when the plan has none
NoPlan == [exists |-> FALSE, status |-> "", parent_branch |-> "",
           subtasks |-> <<>>, qa_signoff |-> "", merged_at |-> 0,
           bad |-> FALSE]

MkPlan(st, pb, subs, qa) ==
  [exists |-> TRUE, status |-> st, parent_branch |-> pb,
   subtasks |-> subs, qa_signoff |-> qa, merged_at |-> 0, bad |-> FALSE]

NoReport == [exists |-> FALSE, rejected |-> FALSE, passed |-> FALSE]

TimerIds == 1..MaxTimers

\* no entry in logWatchers
NoWatcher == [active |-> FALSE, interval |-> 0]

\* a timer id that no pending interval has
NoTimer == [on |-> FALSE, task |-> "", lastContent |-> 0,
            lastWorktreeContent |-> 0, lastPlanStatus |-> ""]

\* task_logs.json of a task: the content version of the copy in the spec
\* directory and of the copy in the worktree mirror; sent counts the
\* logsChanged events published since the last write; mainKind and wtKind
\* tell what JSON.parse makes of the content of the copy: "object" (a
\* document), "null" (a value that is falsy in JavaScript) or "malformed"
\* (it throws)
NoLogs == [main |-> 0, wt |-> 0, sent |-> 0, mainKind |-> "object",
           wtKind |-> "object"]

\* the WebSocket objects the server accepts, in the order of their
\* connection events
Sockets == 1..MaxSockets

\* A WebSocket: its readyState ("NONE" before the connection event), the
\* messages sent on it, and the readings of the message counter when it was
\* added to wsClients (since) and when it was deleted from it (until, -1
\* while it is a member or was never one).
NoSocket == [readyState |-> "NONE", inbox |-> <<>>, since |-> 0, until |-> -1]

\* The repository of the project, as far as the merge engine reads and
\* writes it.  branches: the base branches that exist; feature: whether
\* auto-claude/<taskId> exists; integrated: the base branches that contain
\* every commit of the feature branch; commits: the commits the merge
\* requests created; merging: a merge is in progress (MERGE_HEAD, possibly
\* unmerged paths); tree: the uncommitted changes of the user ("clean",
\* "tracked" for modified tracked files, "untracked" for untracked files
\* only); lost: the changes of the user were in a stash entry that was
\* dropped; stash: the stash stack, top last, each entry by who pushed it;
\* foreign: a stash entry of the user was popped or dropped; ignored: whether
\* .gitignore mentions .worktrees; transient: whether an untracked
\* .auto-claude-status or .claude_settings.json lies in the project
\* directory; specTracked: whether git tracks the spec directory of the
\* task; resolved: the conflicting paths the last merge request resolved by
\* itself, types: what git status printed for each of them (UU, AA, DU or
\* UD), content: what the handler left at each of them ("theirs" for the
\* version of the feature branch, "absent" after git rm); gitlink: the
\* submodule reference in the index ("base" for the one of the base branch,
\* "unmerged" while it is in conflict); call: the targetBranch, the base
\* branch, the hasStash flag and the hasSubmoduleConflict flag of the last
\* merge request, and whether it reached git merge.
NoPaths == [f \in {} |-> ""]

NoCall ==
  [target |-> "", base |-> "", hasStash |-> FALSE, attempted |-> FALSE,
   submodule |-> FALSE]

RepoAtRest ==
  [branches |-> {"main", "dev"}, feature |-> TRUE, integrated |-> {},
   commits |-> 0, merging |-> FALSE, tree |-> "clean", lost |-> FALSE,
   stash |-> <<>>, foreign |-> FALSE, ignored |-> TRUE, transient |-> FALSE,
   specTracked |-> TRUE, resolved |-> {}, types |-> NoPaths,
   content |-> NoPaths, gitlink |-> "base", call |-> NoCall]

\* state: "running" after a successful spawn, "failed" when the spawn failed
\* (the child emits 'error' and never 'exit'), "exited" once 'exit' was
\* emitted; killed is child.killed; hasOutput is whether a chunk of its
\* stdout or stderr was delivered; wt is the hasWorktree the exit callback
\* of a review restart captured.
NoChild == [task |-> "", kind |-> "none", state |-> "unborn",
            killed |-> FALSE, hasOutput |-> FALSE, wt |-> FALSE]

\* a child after its 'exit': nothing reads the object any more
Exited(c) == [NoChild EXCEPT !.task = c.task, !.kind = c.kind,
                             !.state = "exited"]

\* a worker that is running and was not sent a termination signal
Live(p) == procs[p].state = "running" /\ ~procs[p].killed

\* An event as broadcast() sends it.  src and planStatusAtPublish are not
\* part of the message: src is the pid of the worker the publishing callback
\* belongs to (NoProc for a stop request, Watcher for a poll), planStatusAtPublish
\* the status the plan file of the publishing handler holds at the call.
Event(type, t, st, code, src, disk) ==
  [type |-> type, taskId |-> t, status |-> st, code |-> code,
   src |-> src, planStatusAtPublish |-> disk]

broadcast(evs, e) == Append(evs, e)

\* res.json(...) of the handler of a route for a task
Reply(route, t, body) == [route |-> route, taskId |-> t, body |-> body]

NoReply == Reply("", "", "")

\* a plan update that is not written back
WriteStatus_Skip(pl, s) == pl

\* plan.status = s; writeFileSync(planPath, ...) inside if (existsSync(planPath))
WriteStatus(pl, s) == IF pl.exists THEN [pl EXCEPT !.status = s] ELSE pl

\* ------------------------------------------------------ status derivation
Count(subs, s) == Cardinality({i \in 1..Len(subs) : subs[i] = s})

Derived(st, rr) == [status |-> st, reviewReason |-> rr]

\* a derivation that takes every finished plan for an approved one
StatusFromSubtasks_NoQa(pl) ==
  LET n == Len(pl.subtasks)
  IN IF n > 0 /\ Count(pl.subtasks, "completed") = n
     THEN Derived("human_review", "completed")
     ELSE IF Count(pl.subtasks, "failed") > 0
          THEN Derived("human_review", "errors")
          ELSE IF Count(pl.subtasks, "in_progress") > 0
                  \/ Count(pl.subtasks, "completed") > 0
               THEN Derived("in_progress", "")
               ELSE Derived("pending", "")

\* status from the subtask progress; reviewReason "" is undefined
StatusFromSubtasks(pl) ==
  LET n == Len(pl.subtasks)
      completed == Count(pl.subtasks, "completed")
      inProgress == Count(pl.subtasks, "in_progress")
      failed == Count(pl.subtasks, "failed")
  IN IF n > 0
     THEN IF completed = n
          THEN IF pl.qa_signoff = "approved"
               THEN Derived("human_review", "completed")
               ELSE Derived("ai_review", "")
          ELSE IF failed > 0
               THEN Derived("human_review", "errors")
               ELSE IF inProgress > 0 \/ completed > 0
                    THEN Derived("in_progress", "")
                    ELSE Derived("pending", "")
     ELSE Derived("pending", "")

\* the qa_report.md check: rejected is content.includes('REJECTED') ||
\* content.includes('FAILED'), passed is includes('PASSED') || 'APPROVED'
StatusFromQaReport(d, pl, rep) ==
  IF ~rep.exists THEN d
  ELSE IF rep.rejected THEN Derived("human_review", "qa_rejected")
  ELSE IF rep.passed /\ Len(pl.subtasks) > 0
          /\ Count(pl.subtasks, "completed") = Len(pl.subtasks)
       THEN Derived("human_review", "completed")
       ELSE d

\* the explicit plan.status overrides the status and keeps the reason
StatusFromPlanStatus(d, pl) ==
  IF pl.status \in {"done", "completed"} THEN Derived("done", d.reviewReason)
  ELSE IF pl.status \in {"planning", "coding"}
       THEN Derived("in_progress", d.reviewReason)
  ELSE IF pl.status = "human_review"
       THEN Derived("human_review", d.reviewReason)
  ELSE IF pl.status = "ai_review" THEN Derived("ai_review", d.reviewReason)
  ELSE d

DerivedStatus(pl, rep) ==
  IF pl.exists
  THEN StatusFromPlanStatus(
         StatusFromQaReport(StatusFromSubtasks(pl), pl, rep), pl)
  ELSE Derived("pending", "")

\* one element of the data of GET /api/tasks
TaskEntry(t) ==
  LET d == DerivedStatus(plan[t], qaReport[t])
  IN [status |-> IF runningTasks[t] # NoProc THEN "in_progress" ELSE d.status,
      reviewReason |-> d.reviewReason]

\* ---------------------------------------------------------------- helpers
\* child.kill(): the signal reaches a running child only
kill(ps, p) ==
  IF p # NoProc /\ ps[p].state = "running"
  THEN [ps EXCEPT ![p].killed = TRUE] ELSE ps

\* a start that replaces the handle without terminating the old worker
KillExisting_NoSignal(ps, t) == ps

\* if (runningTasks.has(taskId)) { ...process.kill(); runningTasks.delete }
KillExisting(ps, t) == kill(ps, runningTasks[t])

\* a start that leaves the announcement to the worker's first output
StartPublished_Silent(t, child, disk) == <<>>

\* broadcast('task:statusChange', { taskId, status: 'in_progress' }) of start
StartPublished(t, child, disk) ==
  broadcast(<<>>, Event("statusChange", t, "in_progress", NoCode, child, disk))

\* the child spawn() returns: 'exit' will follow only when the launch worked
Child(t, kind, launched, wt) ==
  [task |-> t, kind |-> kind,
   state |-> IF launched THEN "running" ELSE "failed",
   killed |-> FALSE, hasOutput |-> FALSE, wt |-> wt]

\* a watcher that reads the copy in the spec directory only
WatchedPlan_Main(pl, wpl) == pl

\* the plan file a watcher reads: the worktree copy when it exists
WatchedPlan(pl, wpl) == IF wpl.exists THEN wpl ELSE pl

\* plan.status || '' of the plan file a watcher reads; '' as well when the
\* file is missing or JSON.parse throws
ReadPlanStatus(pl, wpl) ==
  LET f == WatchedPlan(pl, wpl)
  IN IF f.exists /\ ~f.bad THEN f.status ELSE ""

\* the watcher map together with the pending intervals
Watchers == [map |-> logWatchers, timers |-> timers]

\* a clearInterval that leaves the timer pending
clearInterval_Noop(ts, i) == ts

clearInterval(ts, i) == [ts EXCEPT ![i] = NoTimer]

\* the id setInterval returns: one that no pending interval has
FreeTimer(ts) ==
  IF \E i \in TimerIds : ~ts[i].on
  THEN CHOOSE i \in TimerIds : ~ts[i].on /\ \A j \in 1..(i - 1) : ts[j].on
  ELSE MaxTimers

\* a stop that forgets the watcher
stopLogWatching_Leak(w, t) == w

\* if (watcher) { clearInterval(watcher.interval); logWatchers.delete }
stopLogWatching(w, t) ==
  IF w.map[t].active
  THEN [map |-> [w.map EXCEPT ![t] = NoWatcher],
        timers |-> clearInterval(w.timers, w.map[t].interval)]
  ELSE w

\* startLogWatching: the previous watcher is stopped, the closure of the new
\* interval starts from the log contents and the plan status on disk
\* (plan.status || ''), and the interval is stored in the map
startLogWatching(w, t, pl, wpl, lg) ==
  LET w0 == stopLogWatching(w, t)
      i == FreeTimer(w0.timers)
  IN [map |-> [w0.map EXCEPT ![t] = [active |-> TRUE, interval |-> i]],
      timers |-> [w0.timers EXCEPT ![i] =
                    [on |-> TRUE, task |-> t, lastContent |-> lg.main,
                     lastWorktreeContent |-> lg.wt,
                     lastPlanStatus |-> ReadPlanStatus(pl, wpl)]]]

\* a start that records the branch of every start
StoreParentBranch_Overwrite(pl, parentBranch) ==
  IF parentBranch # ""
  THEN [pl EXCEPT !.parent_branch = parentBranch] ELSE pl

\* plan.parent_branch is stored only if not already set
StoreParentBranch(pl, parentBranch) ==
  IF pl.parent_branch = "" /\ parentBranch # ""
  THEN [pl EXCEPT !.parent_branch = parentBranch] ELSE pl

\* the plan update of start
StartPlanUpdate(pl, parentBranch) ==
  IF pl.exists
  THEN StoreParentBranch([pl EXCEPT !.status = "in_progress"], parentBranch)
  ELSE pl

\* exit callbacks that take every exit for a success
FinalStatus_AlwaysReview(kind, code) == "human_review"

\* const finalStatus of the two exit callbacks
FinalStatus(kind, code) ==
  IF kind = "start"
  THEN IF code = 0 THEN "human_review" ELSE "backlog"
  ELSE "human_review"

\* item.status = 'pending' for every in_progress subtask
ResetInProgress(subs) ==
  [i \in 1..Len(subs) |->
     IF subs[i] = "in_progress" THEN "pending" ELSE subs[i]]

\* ---------------------------------------------------------------- actions
\* POST /api/tasks/:id/start when getAutoBuildPath() returns null; start
\* requests are drawn while the bound still allows a spawn
StartNoAutoBuild(t) ==
  /\ nextPid <= MaxProcs
  /\ lastReply' = Reply("start", t, "auto_claude_not_found")
  /\ published' = <<>>
  /\ UNCHANGED <<runningTasks, logWatchers, timers, procs, nextPid, plan,
                 wtPlan, hasWorktree, qaReport, head, listing, wsVars, logVars, callStack, logs, repo,
                 now, merged>>

\* POST /api/tasks/:id/start; options.force only adds --force to the worker's
\* arguments.  launched is whether spawn() could start the executable,
\* gitOk whether git rev-parse returned the branch (parentBranch stays ''
\* when it throws).
StartTask(t) ==
  \E launched \in BOOLEAN, gitOk \in BOOLEAN :
    LET child == nextPid
        parentBranch == IF gitOk THEN head ELSE ""
        plan1 == StartPlanUpdate(plan[t], parentBranch)
    IN /\ nextPid <= MaxProcs
       /\ procs' = [KillExisting(procs, t) EXCEPT
                      ![child] = Child(t, "start", launched, FALSE)]
       /\ nextPid' = nextPid + 1
       /\ runningTasks' = [runningTasks EXCEPT ![t] = child]
       /\ plan' = [plan EXCEPT ![t] = plan1]
       /\ published' = StartPublished(t, child, plan1.status)
       /\ LET w == startLogWatching(Watchers, t, plan1, wtPlan[t], logs[t])
          IN logWatchers' = w.map /\ timers' = w.timers
       /\ lastReply' = Reply("start", t, "success")
       /\ UNCHANGED <<wtPlan, hasWorktree, qaReport, head, listing, wsVars, logVars, callStack, logs,
                      repo, now, merged>>

\* child.stdout / child.stderr 'data': the chunk is published as a log event
ProcOutput(p) ==
  /\ procs[p].state = "running"
  /\ procs' = [procs EXCEPT ![p].hasOutput = TRUE]
  /\ published' = broadcast(<<>>,
       Event("log", procs[p].task, "", NoCode, p, plan[procs[p].task].status))
  /\ lastReply' = NoReply
  /\ UNCHANGED <<runningTasks, logWatchers, timers, nextPid, plan, wtPlan,
                 hasWorktree, qaReport, head, listing, wsVars, logVars, callStack, logs, repo, now,
                 merged>>

\* child.on('exit') of a worker that start spawned
StartExit(p) ==
  \E code \in ExitCodes :
    LET t == procs[p].task
        finalStatus == FinalStatus("start", code)
        plan1 == WriteStatus(plan[t], finalStatus)
    IN /\ procs[p].state = "running"
       /\ procs[p].kind = "start"
       /\ procs' = [procs EXCEPT ![p] = Exited(@)]
       /\ runningTasks' = [runningTasks EXCEPT ![t] = NoProc]
       /\ LET w == stopLogWatching(Watchers, t)
          IN logWatchers' = w.map /\ timers' = w.timers
       /\ plan' = [plan EXCEPT ![t] = plan1]
       /\ published' = broadcast(
            broadcast(<<>>,
              Event("exit", t, "", code, p, plan[t].status)),
            Event("statusChange", t, finalStatus, NoCode, p, plan1.status))
       /\ lastReply' = NoReply
       /\ UNCHANGED <<nextPid, wtPlan, hasWorktree, qaReport, head, listing, wsVars, logVars, callStack,
                      logs, repo, now, merged>>

\* a stop without the if (task) guard
StopTask_Unguarded(t) ==
  /\ procs' = kill(procs, runningTasks[t])
  /\ runningTasks' = [runningTasks EXCEPT ![t] = NoProc]
  /\ LET w == stopLogWatching(Watchers, t)
     IN logWatchers' = w.map /\ timers' = w.timers
  /\ published' = broadcast(<<>>,
       Event("statusChange", t, "stopped", NoCode, NoProc, plan[t].status))
  /\ lastReply' = Reply("stop", t, "success")
  /\ UNCHANGED <<nextPid, plan, wtPlan, hasWorktree, qaReport, head, listing, wsVars, logVars, callStack,
                 logs, repo, now, merged>>

\* POST /api/tasks/:id/stop
StopTask(t) ==
  /\ IF runningTasks[t] # NoProc
     THEN /\ procs' = kill(procs, runningTasks[t])
          /\ runningTasks' = [runningTasks EXCEPT ![t] = NoProc]
          /\ LET w == stopLogWatching(Watchers, t)
             IN logWatchers' = w.map /\ timers' = w.timers
          /\ published' = broadcast(<<>>,
               Event("statusChange", t, "stopped", NoCode, NoProc,
                     plan[t].status))
     ELSE /\ published' = <<>>
          /\ UNCHANGED <<procs, runningTasks, logWatchers, timers>>
  /\ lastReply' = Reply("stop", t, "success")
  /\ UNCHANGED <<nextPid, plan, wtPlan, hasWorktree, qaReport, head, listing, wsVars, logVars, callStack,
                 logs, repo, now, merged>>

\* POST /api/tasks/:id/review with approved = false: the feedback is recorded
\* and the worker is restarted.  The restart listens for no 'error' event, so
\* it is modelled for a worker that launches.
ReviewReject(t) ==
  \E autoBuild \in BOOLEAN :
    LET wt == hasWorktree[t]
        target == IF wt THEN wtPlan[t] ELSE plan[t]
        target1 == IF target.exists
                   THEN [target EXCEPT !.status = "in_progress",
                                       !.qa_signoff = "rejected"]
                   ELSE target
        target2 == IF autoBuild /\ target1.exists
                   THEN [target1 EXCEPT !.subtasks = ResetInProgress(@)]
                   ELSE target1
        plan1 == IF wt THEN plan[t] ELSE target2
        wtPlan1 == IF wt THEN target2 ELSE wtPlan[t]
        child == nextPid
    IN /\ autoBuild => nextPid <= MaxProcs
       /\ plan' = [plan EXCEPT ![t] = plan1]
       /\ wtPlan' = [wtPlan EXCEPT ![t] = wtPlan1]
       /\ IF autoBuild
          THEN /\ procs' = [KillExisting(procs, t) EXCEPT
                              ![child] = Child(t, "review", TRUE, wt)]
               /\ nextPid' = nextPid + 1
               /\ runningTasks' = [runningTasks EXCEPT ![t] = child]
               /\ LET w == startLogWatching(Watchers, t, plan1, wtPlan1,
                                            logs[t])
                  IN logWatchers' = w.map /\ timers' = w.timers
               /\ published' = broadcast(<<>>,
                    Event("statusChange", t, "in_progress", NoCode, child,
                          target2.status))
          ELSE /\ published' = <<>>
               /\ UNCHANGED <<procs, nextPid, runningTasks, logWatchers,
                              timers>>
       /\ lastReply' = Reply("review", t, "success")
       /\ UNCHANGED <<hasWorktree, qaReport, head, listing, wsVars, logVars, callStack, logs, repo, now,
                      merged>>

\* child.on('exit') of a worker that the review restart spawned
ReviewExit(p) ==
  \E code \in ExitCodes :
    LET t == procs[p].task
        wt == procs[p].wt
        finalStatus == FinalStatus("review", code)
        target == IF wt THEN wtPlan[t] ELSE plan[t]
        target1 == WriteStatus(target, finalStatus)
    IN /\ procs[p].state = "running"
       /\ procs[p].kind = "review"
       /\ procs' = [procs EXCEPT ![p] = Exited(@)]
       /\ runningTasks' = [runningTasks EXCEPT ![t] = NoProc]
       /\ LET w == stopLogWatching(Watchers, t)
          IN logWatchers' = w.map /\ timers' = w.timers
       /\ plan' = [plan EXCEPT ![t] = IF wt THEN @ ELSE target1]
       /\ wtPlan' = [wtPlan EXCEPT ![t] = IF wt THEN target1 ELSE @]
       /\ published' = broadcast(
            broadcast(<<>>,
              Event("exit", t, "", code, p, target.status)),
            Event("statusChange", t, finalStatus, NoCode, p, target1.status))
       /\ lastReply' = NoReply
       /\ UNCHANGED <<nextPid, hasWorktree, qaReport, head, listing, wsVars, logVars, callStack, logs,
                      repo, now, merged>>

\* options.targetStatus of a recover request ('backlog' when not given); the
\* handler writes whatever string it is given
RecoverTargets == {"backlog", "done"}

\* POST /api/tasks/:id/recover
RecoverTask(t) ==
  \E newStatus \in RecoverTargets :
    /\ plan' = [plan EXCEPT ![t] = WriteStatus(@, newStatus)]
    /\ runningTasks' = [runningTasks EXCEPT ![t] = NoProc]
    /\ lastReply' = Reply("recover", t, "success")
    /\ published' = <<>>
    /\ UNCHANGED <<logWatchers, timers, procs, nextPid, wtPlan, hasWorktree,
                   qaReport, head, listing, wsVars, logVars, callStack, logs, repo, now, merged>>

\* the setInterval callback of the interval i: one logsChanged when the
\* content of a log file differs from what the closure saw last, then one
\* statusChange when the plan status differs from what it saw last
\* a poll that takes every changed content for a document
newLogs_Unparsed(lg, mainChanged, wtChanged) == mainChanged \/ wtChanged

\* let newLogs: assigned by JSON.parse of a changed file, first the copy in
\* the spec directory and then the one in the worktree, and left alone when
\* JSON.parse throws; the result is whether `changed && newLogs` is truthy
newLogs(lg, mainChanged, wtChanged) ==
  LET afterMain == IF mainChanged /\ lg.mainKind # "malformed"
                   THEN lg.mainKind ELSE "null"
      afterWt == IF wtChanged /\ lg.wtKind # "malformed"
                 THEN lg.wtKind ELSE afterMain
  IN afterWt = "object"

WatcherTick(i) ==
  LET t == timers[i].task
      lg == logs[t]
      mainChanged == lg.main # 0 /\ lg.main # timers[i].lastContent
      wtChanged == lg.wt # 0 /\ lg.wt # timers[i].lastWorktreeContent
      changed == mainChanged \/ wtChanged
      parsed == newLogs(lg, mainChanged, wtChanged)
      cur == [status |-> ReadPlanStatus(plan[t], wtPlan[t])]
      statusChanged == /\ cur.status # ""
                       /\ cur.status # timers[i].lastPlanStatus
      logEvents == IF changed /\ parsed
                   THEN broadcast(<<>>, Event("logsChanged", t, "", NoCode,
                                              Watcher, cur.status))
                   ELSE <<>>
  IN /\ timers[i].on
     /\ timers' = [timers EXCEPT
          ![i].lastContent = IF mainChanged THEN lg.main ELSE @,
          ![i].lastWorktreeContent = IF wtChanged THEN lg.wt ELSE @,
          ![i].lastPlanStatus = IF statusChanged THEN cur.status ELSE @]
     /\ logs' = [logs EXCEPT ![t].sent =
                   IF changed /\ parsed /\ @ < 2 THEN @ + 1 ELSE @]
     /\ published' =
          IF statusChanged
          THEN broadcast(logEvents, Event("statusChange", t, cur.status,
                                          NoCode, Watcher, cur.status))
          ELSE logEvents
     /\ lastReply' = NoReply
     /\ UNCHANGED <<runningTasks, logWatchers, procs, nextPid, plan, wtPlan,
                    hasWorktree, qaReport, head, listing, wsVars, logVars, callStack, repo, now, merged>>

\* the user checks out another branch in the project directory; the branch
\* is read when a worker is spawned only, so checkouts are drawn while the
\* bound still allows a spawn
GitCheckout(b) ==
  /\ nextPid <= MaxProcs
  /\ head # b
  /\ head' = b
  /\ published' = <<>>
  /\ lastReply' = NoReply
  /\ UNCHANGED <<runningTasks, logWatchers, timers, procs, nextPid, plan,
                 wtPlan, hasWorktree, qaReport, listing, wsVars, logVars, callStack, logs, repo, now,
                 merged>>

\* ------------------------------------------------------------------- Init
\* the artifacts a task has before the server handles a request: no plan
\* yet, a fresh plan, a plan with a worktree whose mirror holds a plan copy,
\* and a reviewed plan whose worktree holds no copy
InitArtifacts ==
  {[plan |-> NoPlan, hasWorktree |-> FALSE, wtPlan |-> NoPlan],
   [plan |-> MkPlan("pending", "", <<"pending", "in_progress">>, ""),
    hasWorktree |-> FALSE, wtPlan |-> NoPlan],
   [plan |-> MkPlan("in_progress", "main", <<"completed", "in_progress">>, ""),
    hasWorktree |-> TRUE,
    wtPlan |-> MkPlan("coding", "main", <<"completed", "in_progress">>, "")],
   [plan |-> MkPlan("human_review", "main", <<"completed">>, "approved"),
    hasWorktree |-> TRUE, wtPlan |-> NoPlan]}

Init ==
  /\ runningTasks = [t \in Tasks |-> NoProc]
  /\ logWatchers = [t \in Tasks |-> NoWatcher]
  /\ timers = [i \in TimerIds |-> NoTimer]
  /\ logs = [t \in Tasks |-> NoLogs]
  /\ repo = RepoAtRest
  /\ now = 1
  /\ merged = {}
  /\ procs = [p \in Pids |-> NoChild]
  /\ nextPid = 1
  /\ \E a \in [Tasks -> InitArtifacts] :
       /\ plan = [t \in Tasks |-> a[t].plan]
       /\ hasWorktree = [t \in Tasks |-> a[t].hasWorktree]
       /\ wtPlan = [t \in Tasks |-> a[t].wtPlan]
  /\ qaReport = [t \in Tasks |-> NoReport]
  /\ head = "main"
  /\ published = <<>>
  /\ lastReply = NoReply
  /\ listing = [t \in Tasks |-> Derived("", "")]
  /\ wsClients = {}
  /\ sockets = [o \in Sockets |-> NoSocket]
  /\ messages = 0
  /\ logFiles = NoLogFiles
  /\ taskLogs = NoTaskLogs
  /\ callStack = NoHandler

Next ==
  \/ \E t \in Tasks : StartNoAutoBuild(t)
  \/ \E t \in Tasks : StartTask(t)
  \/ \E p \in Pids : ProcOutput(p)
  \/ \E p \in Pids : StartExit(p)
  \/ \E t \in Tasks : StopTask(t)
  \/ \E t \in Tasks : ReviewReject(t)
  \/ \E p \in Pids : ReviewExit(p)
  \/ \E t \in Tasks : RecoverTask(t)
  \/ \E i \in TimerIds : WatcherTick(i)

Spec == Init /\ [][Next]_vars

\* starts, stops and exits of workers while the user changes the branch
\* checked out in the project directory
NextBranch ==
  \/ \E t \in Tasks : StartNoAutoBuild(t)
  \/ \E t \in Tasks : StartTask(t)
  \/ \E p \in Pids : StartExit(p)
  \/ \E t \in Tasks : StopTask(t)
  \/ \E t \in Tasks : ReviewReject(t)
  \/ \E p \in Pids : ReviewExit(p)
  \/ \E t \in Tasks : RecoverTask(t)
  \/ \E b \in Branches : GitCheckout(b)

SpecBranch == Init /\ [][NextBranch]_vars

\* ------------------------------------------------ the watchers on their own
\* POST /api/tasks/:id/logs/watch
WatchLogs(t) ==
  /\ LET w == startLogWatching(Watchers, t, plan[t], wtPlan[t], logs[t])
     IN logWatchers' = w.map /\ timers' = w.timers
  /\ lastReply' = Reply("watch", t, "success")
  /\ published' = <<>>
  /\ UNCHANGED <<runningTasks, procs, nextPid, plan, wtPlan, hasWorktree,
                 qaReport, head, listing, wsVars, logVars, callStack, logs, repo, now, merged>>

\* POST /api/tasks/:id/logs/unwatch
UnwatchLogs(t) ==
  /\ LET w == stopLogWatching(Watchers, t)
     IN logWatchers' = w.map /\ timers' = w.timers
  /\ lastReply' = Reply("unwatch", t, "success")
  /\ published' = <<>>
  /\ UNCHANGED <<runningTasks, procs, nextPid, plan, wtPlan, hasWorktree,
                 qaReport, head, listing, wsVars, logVars, callStack, logs, repo, now, merged>>

\* the worker rewrites task_logs.json, in the spec directory or (when the
\* task has a worktree) in the worktree mirror, with content not seen before
LogWrite(t) ==
  \E inWorktree \in BOOLEAN :
    LET content == logs[t].main + logs[t].wt + 1
    IN /\ logs[t].main + logs[t].wt < MaxWrites
       /\ inWorktree => hasWorktree[t]
       /\ logs' = [logs EXCEPT ![t] =
                     IF inWorktree
                     THEN [@ EXCEPT !.wt = content, !.wtKind = "object",
                                    !.sent = 0]
                     ELSE [@ EXCEPT !.main = content, !.mainKind = "object",
                                    !.sent = 0]]
       /\ published' = <<>>
       /\ lastReply' = NoReply
       /\ UNCHANGED <<runningTasks, logWatchers, timers, procs, nextPid, plan,
                      wtPlan, hasWorktree, qaReport, head, listing, wsVars, logVars, callStack, repo, now,
                      merged>>

NextWatch ==
  \/ \E t \in Tasks : WatchLogs(t)
  \/ \E t \in Tasks : UnwatchLogs(t)
  \/ \E t \in Tasks : LogWrite(t)
  \/ \E i \in TimerIds : WatcherTick(i)
  \/ \E t \in Tasks : StartTask(t)
  \/ \E t \in Tasks : StopTask(t)
  \/ \E p \in Pids : StartExit(p)

SpecWatch == Init /\ [][NextWatch]_vars

\* ------------------------------------------------------- the merge engine
\* paths that a merge can report as conflicting
Paths == {".auto-claude-status", "src/app.ts"}

\* const autoResolvableFiles
AutoResolvableFiles == {".auto-claude-status", ".claude_settings.json"}

\* targetBranch of a merge request ("" when not given)
TargetBranches == {"", "dev"}

\* the first two characters of a line of git status --porcelain that the
\* handler takes for a conflict: both modified, both added, deleted by us
\* (on the base branch), deleted by them (on the feature branch)
ConflictTypes == {"UU", "AA", "DU", "UD"}

\* hasSubmoduleConflict and, with it, whether git config --file .gitmodules
\* lists the submodule that is in conflict
SubmoduleAnswers ==
  {[submodule |-> FALSE, listed |-> TRUE],
   [submodule |-> TRUE, listed |-> TRUE],
   [submodule |-> TRUE, listed |-> FALSE]}

\* what git merge answers: ok, or a failure with the conflicting paths that
\* git status lists, here all as UU, whether the message names a submodule
\* conflict, and whether .gitmodules lists that submodule, here always
MergeResults ==
  {[ok |-> TRUE, conflicts |-> {}, types |-> NoPaths, submodule |-> FALSE,
    listed |-> TRUE]}
  \cup
  {[ok |-> FALSE, conflicts |-> cf, types |-> [f \in cf |-> "UU"],
    submodule |-> sm.submodule, listed |-> sm.listed] :
     cf \in SUBSET Paths, sm \in {a \in SubmoduleAnswers : a.listed}}

\* the failures of git merge with conflicting paths of every type
TypedResults ==
  UNION {{[ok |-> FALSE, conflicts |-> cf, types |-> ty,
           submodule |-> sm.submodule, listed |-> sm.listed] :
            ty \in [cf -> ConflictTypes], sm \in SubmoduleAnswers} :
         cf \in (SUBSET Paths) \ {{}}}

\* a resolution that falls back to the branch that is checked out
ResolveBase_Current(targetBranch, pl, r, current) ==
  IF targetBranch # "" THEN targetBranch
  ELSE IF pl.exists /\ pl.parent_branch # "" THEN pl.parent_branch
  ELSE current

\* let baseBranch: targetBranch, else plan.parent_branch, else main when
\* git rev-parse --verify main succeeds, else master
ResolveBase(targetBranch, pl, r, current) ==
  IF targetBranch # "" THEN targetBranch
  ELSE IF pl.exists /\ pl.parent_branch # "" THEN pl.parent_branch
  ELSE IF "main" \in r.branches THEN "main" ELSE "master"

\* git log base..feature prints nothing (it throws when a branch is missing)
AlreadyMerged(r, base) == r.feature /\ base \in r.integrated

\* a plan update that stamps every call
PersistAlreadyMerged_Restamp(pl, clock) ==
  IF pl.exists THEN [pl EXCEPT !.status = "done", !.merged_at = clock] ELSE pl

\* plan.status = 'done'; plan.merged_at = plan.merged_at || new Date()
PersistAlreadyMerged(pl, clock) ==
  IF pl.exists
  THEN [pl EXCEPT !.status = "done",
                  !.merged_at = IF @ # 0 THEN @ ELSE clock]
  ELSE pl

\* plan.status = 'done'; plan.merged_at = new Date()
PersistDone(pl, clock) ==
  IF pl.exists THEN [pl EXCEPT !.status = "done", !.merged_at = clock] ELSE pl

\* git status --porcelain -- . ":(exclude).worktrees" prints something
HasChanges(r) == r.tree # "clean" \/ r.transient

\* git stash push (without -u): the modified tracked files go into a new
\* entry; with untracked files only there is nothing to save and no entry
StashPush(r) ==
  IF r.tree = "tracked"
  THEN [r EXCEPT !.stash = Append(@, "merge"), !.tree = "clean"]
  ELSE r

\* git stash pop: fails on an empty stack; otherwise git applies the top
\* entry and removes it when applied is TRUE, and leaves it when not
StashPop(r, applied) ==
  IF r.stash = <<>> \/ ~applied THEN r
  ELSE LET top == r.stash[Len(r.stash)]
       IN [r EXCEPT !.stash = SubSeq(@, 1, Len(@) - 1),
                    !.tree = IF top = "merge" THEN "tracked" ELSE @,
                    !.foreign = @ \/ top = "user"]

\* git stash drop: removes the top entry, if any
StashDrop(r) ==
  IF r.stash = <<>> THEN r
  ELSE LET top == r.stash[Len(r.stash)]
       IN [r EXCEPT !.stash = SubSeq(@, 1, Len(@) - 1),
                    !.lost = @ \/ top = "merge",
                    !.foreign = @ \/ top = "user"]

\* whether git stash pop can apply the top entry: never on top of unmerged
\* paths, otherwise as the content of the files decides
CanPop(r, applied) == r.stash # <<>> /\ applied /\ ~r.merging

\* the success path: if (hasStash) pop, and drop if the pop failed
RestoreOnSuccess(r, hasStash, applied) ==
  IF ~hasStash THEN r
  ELSE IF CanPop(r, applied) THEN StashPop(r, TRUE) ELSE StashDrop(r)

\* the catch block: if (hasStash) pop, a failure of the pop is ignored
RestoreOnError(r, hasStash, applied) ==
  IF hasStash /\ CanPop(r, applied) THEN StashPop(r, TRUE) ELSE r

\* conflictFiles.length > 0 && every file is in autoResolvableFiles
CanAutoResolve(conflicts) ==
  conflicts # {} /\ conflicts \subseteq AutoResolvableFiles

\* if (canAutoResolve || hasSubmoduleConflict)
AutoResolves(res) == CanAutoResolve(res.conflicts) \/ res.submodule

\* a resolution that takes the version of the feature branch for every type
ResolveConflict_Theirs(conflictType) == "theirs"

\* for (const line of conflictLines): git rm for DU and for UD, git checkout
\* --theirs and git add for UU and AA
ResolveConflict(conflictType) ==
  IF conflictType = "DU" THEN "absent"
  ELSE IF conflictType = "UD" THEN "absent"
  ELSE "theirs"

\* if (hasSubmoduleConflict): git checkout HEAD -- and git add for every
\* path that .gitmodules lists, each in its own try/catch; a submodule that
\* is not listed stays in conflict
ResolveSubmodule(res) ==
  IF res.submodule /\ ~res.listed THEN "unmerged" ELSE "base"

\* The merge attempt of the handler on base: what git merge and the conflict
\* handling leave in the repository, and whether the handler throws.
\* committed is whether git commit (or git merge --continue, when there is
\* no conflicting path) succeeds.
MergeAttempt(r, base, res, committed) ==
  LET done == [r EXCEPT !.integrated = @ \cup {base}, !.commits = @ + 1,
                        !.merging = FALSE, !.resolved = {},
                        !.types = NoPaths, !.content = NoPaths]
      stuck == [r EXCEPT !.merging = res.conflicts # {} \/ res.submodule,
                         !.resolved = {}, !.types = NoPaths,
                         !.content = NoPaths,
                         !.gitlink = ResolveSubmodule(res)]
      content == [f \in res.conflicts |-> ResolveConflict(res.types[f])]
  IN IF res.ok THEN [repo |-> done, thrown |-> FALSE]
     ELSE IF AutoResolves(res)
          THEN IF committed
               THEN [repo |-> [done EXCEPT !.resolved = res.conflicts,
                                           !.types = res.types,
                                           !.content = content],
                     thrown |-> FALSE]
               ELSE [repo |-> [stuck EXCEPT !.resolved = res.conflicts,
                                            !.types = res.types,
                                            !.content = content],
                     thrown |-> FALSE]
     ELSE IF res.conflicts = {}
          THEN IF committed THEN [repo |-> done, thrown |-> FALSE]
               ELSE [repo |-> stuck, thrown |-> TRUE]
     ELSE [repo |-> stuck, thrown |-> TRUE]

\* what git can answer to the merge of the feature branch: nothing but a
\* failure without conflicts when the branch does not exist
PossibleResults(r) ==
  IF r.feature THEN MergeResults
  ELSE {[ok |-> FALSE, conflicts |-> {}, types |-> NoPaths,
         submodule |-> FALSE, listed |-> TRUE]}

\* the housekeeping between the snapshot and the merge: .gitignore,
\* filesToClean and the untracked spec directory of the task
Housekeeping(r) == [r EXCEPT !.ignored = TRUE, !.transient = FALSE]

\* isTracked === 'untracked' && existsSync(localSpecDir): rmSync
SpecDirRemoved(r, pl) == ~r.specTracked /\ pl.exists

\* the answers the handler can get from git commit or git merge --continue,
\* asked for only after a failed git merge that the handler goes on with;
\* there is no merge to conclude when the feature branch does not exist,
\* and no commit with a submodule left in conflict
CommitAnswers(r, res) ==
  IF ~r.feature THEN {FALSE}
  ELSE IF ResolveSubmodule(res) = "unmerged" THEN {FALSE}
  ELSE IF ~res.ok /\ (AutoResolves(res) \/ res.conflicts = {})
       THEN BOOLEAN ELSE {TRUE}

\* the answers the handler can get from git stash pop
PopAnswers(r, hasStash) ==
  IF hasStash /\ r.stash # <<>> /\ ~r.merging THEN BOOLEAN ELSE {FALSE}

\* the answers the handler can get from git checkout of the base branch: it
\* works on a clean tree and fails for a branch that does not exist
SwitchAnswers(r, current, base) ==
  IF current = base THEN {TRUE}
  ELSE IF base \notin r.branches THEN {FALSE}
  ELSE IF r.tree = "clean" /\ ~r.merging THEN {TRUE}
  ELSE BOOLEAN

\* The handler from git merge --abort on: r is the repository on the base
\* branch, res the answer of git merge, committed the one of git commit or
\* git merge --continue, applied the one of git stash pop, carries whether
\* the feature branch holds the spec directory that the merge brings back
\* after rmSync.  The result holds the repository, the plan, whether the
\* spec directory was removed and whether the handler threw.
MergeFrom(r, base, pl, wpl, clock, res, committed, applied, carries) ==
  LET r1 == [r EXCEPT !.merging = FALSE, !.gitlink = "base"]
      hasStash == HasChanges(r1)
      r2 == IF hasStash THEN StashPush(r1) ELSE r1
      r3 == Housekeeping(r2)
      removed == SpecDirRemoved(r3, pl)
      att == MergeAttempt(r3, base, res, committed)
      attRepo == att.repo
      thrown == att.thrown
      back == removed /\ ~thrown /\ carries /\ wpl.exists
      plan1 == IF removed THEN IF back THEN wpl ELSE NoPlan ELSE pl
      r4 == IF thrown
            THEN RestoreOnError(attRepo, hasStash, applied)
            ELSE RestoreOnSuccess(attRepo, hasStash, applied)
  IN [repo |-> [r4 EXCEPT !.call.hasStash = hasStash,
                          !.call.attempted = TRUE,
                          !.call.submodule = res.submodule],
      plan |-> IF thrown THEN plan1 ELSE PersistDone(plan1, clock),
      removed |-> removed,
      thrown |-> thrown]

\* the repository when git merge runs (after abort, snapshot, housekeeping)
BeforeAttempt(r) ==
  LET r1 == [r EXCEPT !.merging = FALSE, !.gitlink = "base"]
  IN Housekeeping(IF HasChanges(r1) THEN StashPush(r1) ELSE r1)

\* POST /api/tasks/:id/worktree/merge; what git answers is drawn, the
\* answer of git merge from results
MergeWith(t, results) ==
  \E targetBranch \in TargetBranches :
    LET base == ResolveBase(targetBranch, plan[t], repo, head)
        idle == [repo EXCEPT !.call = [NoCall EXCEPT !.target = targetBranch,
                                                     !.base = base],
                             !.resolved = {}, !.types = NoPaths,
                             !.content = NoPaths]
    IN \E switched \in SwitchAnswers(repo, head, base) :
         /\ now <= MaxMerges
         /\ now' = now + 1
         /\ published' = <<>>
         /\ UNCHANGED <<runningTasks, logWatchers, timers, procs, nextPid,
                        wtPlan, hasWorktree, listing, wsVars, logVars, callStack>>
         /\ IF ~switched
            THEN \* git checkout throws
                 /\ repo' = idle
                 /\ lastReply' = Reply("merge", t, "error")
                 /\ UNCHANGED <<head, plan, qaReport, logs, merged>>
            ELSE IF AlreadyMerged(repo, base)
            THEN /\ head' = base
                 /\ repo' = idle
                 /\ plan' = [plan EXCEPT ![t] = PersistAlreadyMerged(@, now)]
                 /\ lastReply' = Reply("merge", t, "already_merged")
                 /\ merged' = merged \cup {t}
                 /\ UNCHANGED <<qaReport, logs>>
            ELSE \E res \in results :
                 \E committed \in CommitAnswers(repo, res) :
                 \E applied \in PopAnswers(
                      MergeAttempt(BeforeAttempt(idle), base, res,
                                   committed).repo,
                      HasChanges(repo)) :
                 \E carries \in IF SpecDirRemoved(repo, plan[t])
                                   /\ wtPlan[t].exists
                                THEN BOOLEAN ELSE {FALSE} :
                   LET m == MergeFrom(idle, base, plan[t], wtPlan[t], now,
                                      res, committed, applied, carries)
                   IN /\ head' = base
                      /\ repo' = m.repo
                      /\ plan' = [plan EXCEPT ![t] = m.plan]
                      /\ qaReport' = [qaReport EXCEPT ![t] =
                                        IF m.removed THEN NoReport ELSE @]
                      /\ logs' = [logs EXCEPT ![t].main =
                                    IF m.removed THEN 0 ELSE @]
                      /\ lastReply' = Reply("merge", t,
                           IF m.thrown THEN "error" ELSE "merged")
                      /\ merged' = IF m.thrown THEN merged
                                   ELSE merged \cup {t}

\* POST /api/tasks/:id/worktree/merge
Merge(t) == MergeWith(t, PossibleResults(repo))

\* POST /api/tasks/:id/worktree/merge where git merge reports conflicts
MergeConflicting(t) ==
  /\ repo.feature
  /\ MergeWith(t, TypedResults)

\* POST /api/tasks/:id/worktree/discard.  removed is whether git worktree
\* remove --force works, deleted whether git branch -D does; an error of
\* either is ignored and the first skips the second.
Discard(t) ==
  \E removed, deleted \in BOOLEAN :
    LET gone == hasWorktree[t] => removed
    IN /\ hasWorktree' = [hasWorktree EXCEPT ![t] = @ /\ ~removed]
       /\ wtPlan' = [wtPlan EXCEPT ![t] = IF hasWorktree[t] /\ removed
                                          THEN NoPlan ELSE @]
       /\ logs' = [logs EXCEPT ![t].wt = IF hasWorktree[t] /\ removed
                                         THEN 0 ELSE @]
       /\ repo' = [repo EXCEPT !.feature = @ /\ ~(gone /\ deleted)]
       /\ lastReply' = Reply("discard", t, "success")
       /\ published' = <<>>
       /\ UNCHANGED <<runningTasks, logWatchers, timers, procs, nextPid, plan,
                      qaReport, head, listing, wsVars, logVars, callStack, now, merged>>

\* the base branch of the preview: main if git rev-parse --verify main
\* succeeds, else master; the plan artifact is not read and the request has
\* no targetBranch
PreviewBase(r) == IF "main" \in r.branches THEN "main" ELSE "master"

\* res.json(...) of the preview; base is the branch git log and git diff
\* were asked about, none in the answer of the catch block
PreviewReply(t, body, base) ==
  [route |-> "merge-preview", taskId |-> t, body |-> body, base |-> base]

\* a preview that checks out the base branch as the merge does
MergePreview_Checkout(t) ==
  /\ head' = PreviewBase(repo)
  /\ lastReply' = PreviewReply(t, "preview", PreviewBase(repo))
  /\ published' = <<>>
  /\ UNCHANGED <<runningTasks, logWatchers, timers, logs, procs, nextPid,
                 plan, wtPlan, hasWorktree, qaReport, listing, wsVars, logVars, callStack, repo, now,
                 merged>>

\* GET /api/tasks/:id/worktree/merge-preview: git rev-parse, git log and
\* git diff only; the answer is a success in the catch block as well
MergePreview(t) ==
  \E failed \in BOOLEAN :
    /\ lastReply' = IF failed THEN PreviewReply(t, "ready", "")
                    ELSE PreviewReply(t, "preview", PreviewBase(repo))
    /\ published' = <<>>
    /\ UNCHANGED <<runningTasks, logWatchers, timers, logs, procs, nextPid,
                   plan, wtPlan, hasWorktree, qaReport, head, listing, wsVars, logVars, callStack, repo,
                   now, merged>>

\* the plans a merge request finds: none, one without parent_branch, one
\* started on dev
MergePlans ==
  {NoPlan,
   MkPlan("human_review", "", <<"completed">>, "approved"),
   MkPlan("human_review", "dev", <<"completed">>, "approved")}

\* the repositories a merge request finds: the feature branch exists, ahead
\* of every branch or behind none; one repository has master for main
MergeRepos ==
  {[RepoAtRest EXCEPT !.integrated = int, !.tree = tr, !.stash = st,
                      !.ignored = FALSE, !.specTracked = tk] :
     int \in {{}, {"main", "master", "dev"}},
     tr \in {"clean", "tracked", "untracked"},
     st \in {<<>>, <<"user">>},
     tk \in BOOLEAN}
  \cup {[RepoAtRest EXCEPT !.branches = {"master", "dev"},
                           !.ignored = FALSE]}

InitMerge ==
  /\ runningTasks = [t \in Tasks |-> NoProc]
  /\ logWatchers = [t \in Tasks |-> NoWatcher]
  /\ timers = [i \in TimerIds |-> NoTimer]
  /\ logs = [t \in Tasks |-> NoLogs]
  /\ procs = [p \in Pids |-> NoChild]
  /\ nextPid = 1
  /\ plan \in [Tasks -> MergePlans]
  /\ hasWorktree = [t \in Tasks |-> TRUE]
  /\ wtPlan = plan
  /\ qaReport = [t \in Tasks |-> NoReport]
  /\ repo \in MergeRepos
  /\ head \in repo.branches
  /\ now = 1
  /\ merged = {}
  /\ published = <<>>
  /\ lastReply = NoReply
  /\ listing = [t \in Tasks |-> Derived("", "")]
  /\ wsClients = {}
  /\ sockets = [o \in Sockets |-> NoSocket]
  /\ messages = 0
  /\ logFiles = NoLogFiles
  /\ taskLogs = NoTaskLogs
  /\ callStack = NoHandler

NextMerge ==
  \/ \E t \in Tasks : Merge(t)
  \/ \E t \in Tasks : Discard(t)
  \/ \E t \in Tasks : MergePreview(t)

SpecMerge == InitMerge /\ [][NextMerge]_vars

\* merge requests on conflicting branches: the repository has the feature
\* branch ahead of the base branches, a clean working tree, no stash entry
\* of the user and the spec directory tracked
InitResolve ==
  /\ InitMerge
  /\ repo.integrated = {}
  /\ repo.tree = "clean"
  /\ repo.stash = <<>>
  /\ repo.specTracked

NextResolve == \E t \in Tasks : MergeConflicting(t)

SpecResolve == InitResolve /\ [][NextResolve]_vars

\* GET /api/tasks: the entry of every spec directory of the project
GetTasks ==
  /\ listing' = [t \in Tasks |-> TaskEntry(t)]
  /\ lastReply' = Reply("tasks", "", "success")
  /\ published' = <<>>
  /\ UNCHANGED <<runningTasks, logWatchers, timers, procs, nextPid, plan,
                 wtPlan, hasWorktree, qaReport, head, logs, repo, now,
                 merged, wsVars, logVars, callStack>>

\* the sequences over S of length at most n
RECURSIVE SeqsUpTo(_, _)
SeqsUpTo(S, n) ==
  IF n = 0 THEN {<<>>}
  ELSE LET shorter == SeqsUpTo(S, n - 1)
       IN shorter \cup {Append(q, x) : q \in shorter, x \in S}

\* values of the status field of a plan on disk
PlanStatuses ==
  {"", "pending", "in_progress", "backlog", "human_review", "ai_review",
   "done", "completed", "planning", "coding"}

\* qa_signoff.status of a plan ("" when the plan has no qa_signoff)
QaSignoffs == {"", "approved", "rejected"}

\* the plans the worker and the handlers can leave on disk
ListedPlans ==
  {NoPlan} \cup
  {MkPlan(st, "", subs, qa) :
     st \in PlanStatuses, subs \in SeqsUpTo(SubtaskStatuses, MaxSubtasks),
     qa \in QaSignoffs}

\* qa_report.md: absent, or present with or without the two kinds of marker
ListedReports ==
  {NoReport} \cup
  {[exists |-> TRUE, rejected |-> r, passed |-> a] : r, a \in BOOLEAN}

\* a listing is requested for any plan and report, with or without a worker
\* registered for the task
InitStatus ==
  /\ \E running \in BOOLEAN :
       /\ runningTasks = [t \in Tasks |-> IF running THEN 1 ELSE NoProc]
       /\ procs = [p \in Pids |->
                     IF running /\ p = 1
                     THEN Child(CHOOSE t \in Tasks : TRUE, "start", TRUE, FALSE)
                     ELSE NoChild]
       /\ nextPid = IF running THEN 2 ELSE 1
  /\ logWatchers = [t \in Tasks |-> NoWatcher]
  /\ timers = [i \in TimerIds |-> NoTimer]
  /\ logs = [t \in Tasks |-> NoLogs]
  /\ repo = RepoAtRest
  /\ now = 1
  /\ merged = {}
  /\ plan \in [Tasks -> ListedPlans]
  /\ hasWorktree = [t \in Tasks |-> FALSE]
  /\ wtPlan = [t \in Tasks |-> NoPlan]
  /\ qaReport \in [Tasks -> ListedReports]
  /\ head = "main"
  /\ published = <<>>
  /\ lastReply = NoReply
  /\ listing = [t \in Tasks |-> Derived("", "")]
  /\ wsClients = {}
  /\ sockets = [o \in Sockets |-> NoSocket]
  /\ messages = 0
  /\ logFiles = NoLogFiles
  /\ taskLogs = NoTaskLogs
  /\ callStack = NoHandler

NextStatus == GetTasks

SpecStatus == InitStatus /\ [][NextStatus]_vars

\* ----------------------------------------------------------- properties
\* the step is a start request for t that reached the spawn
StartedStep(t) == lastReply' = Reply("start", t, "success")

\* the step is a stop request for t
StoppedStep(t) == lastReply'.route = "stop" /\ lastReply'.taskId = t

\* the step is the exit callback of worker p
ExitedStep(p) == procs[p].state = "running" /\ procs'[p].state = "exited"

SpawnedFor(t) == {p \in Pids : procs[p].task = t}

\* the worker spawned last for t, NoProc when none was
LastSpawned(t) ==
  IF SpawnedFor(t) = {} THEN NoProc
  ELSE CHOOSE p \in SpawnedFor(t) : \A q \in SpawnedFor(t) : q <= p

LiveWorkers(t) == {p \in Pids : procs[p].task = t /\ Live(p)}

\* C1: for every taskId the handle registered, if any, is the worker spawned
\* last for it; a start registers the worker it spawns, and when a running
\* worker was registered at the call that worker has been sent the
\* termination signal and is no longer the registered one.
C1_AtMostOneHandle ==
  [][\A t \in Tasks :
       /\ runningTasks'[t] # NoProc => runningTasks'[t] = LastSpawned(t)'
       /\ StartedStep(t) =>
            /\ runningTasks'[t] = nextPid
            /\ procs'[nextPid].kind = "start"
            /\ (runningTasks[t] # NoProc
                /\ procs[runningTasks[t]].state = "running")
               => /\ procs'[runningTasks[t]].killed
                  /\ runningTasks'[t] # runningTasks[t]]_vars

\* a second start replaced the handle of a worker that was still running
C1_Witness ==
  \E p, q \in Pids :
    /\ p < q
    /\ procs[p].task = procs[q].task
    /\ procs[p].state = "running" /\ procs[p].killed
    /\ procs[q].kind = "start"
    /\ runningTasks[procs[q].task] = q
    /\ lastReply = Reply("start", procs[q].task, "success")

\* C2: a start publishes exactly one event, the statusChange to in_progress,
\* in the handler that spawns the worker, so before any chunk of that worker
\* is published (a log event only comes from a worker spawned by an earlier
\* step); and a start issued while the only live worker of the task is the
\* registered one, which has produced no output, leaves exactly one live
\* worker, the new one, when that one launches.
C2_StartAnnounced ==
  [][\A t \in Tasks :
       /\ StartedStep(t) =>
            /\ published' =
                 <<Event("statusChange", t, "in_progress", NoCode, nextPid,
                         plan'[t].status)>>
            /\ ~procs'[nextPid].hasOutput
            /\ (/\ runningTasks[t] # NoProc
                /\ LiveWorkers(t) = {runningTasks[t]}
                /\ ~procs[runningTasks[t]].hasOutput
                /\ procs'[nextPid].state = "running")
               => LiveWorkers(t)' = {nextPid}
       /\ \A i \in 1..Len(published') :
            published'[i].type = "log"
              => /\ published'[i].src \in Pids
                 /\ procs[published'[i].src].state = "running"]_vars

\* the second start of a task arrived before the first worker wrote anything
C2_Witness ==
  \E p, q \in Pids :
    /\ p < q
    /\ procs[p].kind = "start" /\ procs[q].kind = "start"
    /\ procs[p].task = procs[q].task
    /\ ~procs[p].hasOutput /\ procs[p].killed
    /\ LiveWorkers(procs[q].task) = {q}
    /\ Len(published) = 1 /\ published[1].status = "in_progress"
    /\ published[1].src = q

\* C3: whenever a worker of a task is running (and was not sent a
\* termination signal), the listing reports the task as in_progress.
C3_RunningForcesInProgress ==
  \A p \in Pids : Live(p) => TaskEntry(procs[p].task).status = "in_progress"

\* human_review for exit code 0 and backlog otherwise, whoever spawned
StatusByCode(kind, code) == IF code = 0 THEN "human_review" ELSE "backlog"

\* human_review for exit code 0 and backlog otherwise for a worker of start,
\* human_review for every exit of a worker of the review restart
StatusByKindAndCode(kind, code) ==
  IF kind = "start" THEN StatusByCode(kind, code) ELSE "human_review"

\* what the exit callback of p leaves behind: no handle and no watcher for
\* the task, the exit event with the code followed by the statusChange to the
\* final status, and the final status in the plan file of the callback when
\* that file exists; the final status depends on the spawner iff byKind
ExitHandled(p, byKind) ==
  LET t == procs[p].task
      target == IF procs[p].kind = "review" /\ procs[p].wt
                THEN wtPlan'[t] ELSE plan'[t]
      final == IF byKind
               THEN StatusByKindAndCode(procs[p].kind, published'[1].code)
               ELSE StatusByCode(procs[p].kind, published'[1].code)
  IN /\ runningTasks'[t] = NoProc
     /\ ~logWatchers'[t].active
     /\ Len(published') = 2
     /\ published'[1].type = "exit" /\ published'[1].taskId = t
     /\ published'[1].code \in ExitCodes
     /\ published'[2].type = "statusChange" /\ published'[2].taskId = t
     /\ published'[2].status = final
     /\ target.exists => target.status = final

C6_SpawnErrorSurfaced ==
  [][\A t \in Tasks :
       (lastReply'.route = "start" /\ lastReply'.taskId = t
        /\ nextPid' = nextPid + 1 /\ procs'[nextPid].state = "failed")
         => lastReply'.body # "success"]_vars

\* C7: a stop for a task without a registered handle answers success,
\* publishes nothing and leaves the handle map, the watcher map, the plan
\* files and the workers as they were; every stop leaves the task without a
\* handle, so that a second stop in a row is such a stop.
C7_StopWithoutHandle ==
  [][\A t \in Tasks :
       StoppedStep(t) =>
         /\ lastReply'.body = "success"
         /\ runningTasks'[t] = NoProc
         /\ runningTasks[t] = NoProc =>
              /\ published' = <<>>
              /\ UNCHANGED <<runningTasks, logWatchers, procs, plan,
                             wtPlan>>]_vars

\* a stop was answered for a task that had a watcher but no handle
C7_Witness ==
  \E t \in Tasks :
    /\ lastReply = Reply("stop", t, "success")
    /\ published = <<>>
    /\ runningTasks[t] = NoProc
    /\ logWatchers[t].active

\* C8: a stop for a task with a registered handle signals the registered
\* worker if it is running, publishes exactly one event, the statusChange to
\* stopped, and leaves neither a handle nor a watcher for the task.
C8_StopWithHandle ==
  [][\A t \in Tasks :
       (StoppedStep(t) /\ runningTasks[t] # NoProc) =>
         /\ procs[runningTasks[t]].state = "running"
              => procs'[runningTasks[t]].killed
         /\ Len(published') = 1
         /\ published'[1].type = "statusChange"
         /\ published'[1].taskId = t
         /\ published'[1].status = "stopped"
         /\ runningTasks'[t] = NoProc
         /\ ~logWatchers'[t].active]_vars

\* a stop killed the registered worker and published stopped
C8_Witness ==
  \E p \in Pids :
    /\ procs[p].state = "running" /\ procs[p].killed
    /\ lastReply = Reply("stop", procs[p].task, "success")
    /\ Len(published) = 1 /\ published[1].status = "stopped"
    /\ runningTasks[procs[p].task] = NoProc
    /\ ~logWatchers[procs[p].task].active

AllCompleted(pl) ==
  Len(pl.subtasks) > 0 /\ Count(pl.subtasks, "completed") = Len(pl.subtasks)

SomeFailed(pl) == Count(pl.subtasks, "failed") > 0

\* the listing was requested for t, which has a plan and no handle
ListedIdle(t) ==
  lastReply.route = "tasks" /\ runningTasks[t] = NoProc /\ plan[t].exists

PendingTimers(t) == {i \in TimerIds : timers[i].on /\ timers[i].task = t}

\* the logsChanged events for t in a batch of events
LogsChanged(evs, t) ==
  {k \in 1..Len(evs) : evs[k].type = "logsChanged" /\ evs[k].taskId = t}

\* a poll of the interval i took up new content of a log file
TickAbsorbed(i) ==
  /\ lastReply' = NoReply
  /\ logWatchers' = logWatchers
  /\ timers[i].on
  /\ \/ timers'[i].lastContent # timers[i].lastContent
     \/ timers'[i].lastWorktreeContent # timers[i].lastWorktreeContent

C11_DoneOnlyByMerge ==
  \A t \in Tasks : TaskEntry(t).status = "done" => t \in merged

\* the step is a merge request for t
MergeStep(t) == now' # now /\ lastReply'.taskId = t

\* the repository apart from the records of the last merge request
Repository(r) ==
  [r EXCEPT !.call = NoCall, !.resolved = {}, !.types = NoPaths,
            !.content = NoPaths]

\* the step is a merge request for t that found the feature branch without
\* a commit outside the base branch it resolved
MergeOfMerged(t) ==
  MergeStep(t) /\ AlreadyMerged(repo, repo'.call.base)

C14_OnlyAllowListResolved == repo.resolved \subseteq AutoResolvableFiles

\* C15: when a merge request that took a snapshot fails, no stash entry of
\* the request is left on the stash stack.
C15_NoStashLeftOnFailure ==
  \A t \in Tasks :
    (lastReply = Reply("merge", t, "error") /\ repo.call.hasStash)
      => \A k \in 1..Len(repo.stash) : repo.stash[k] # "merge"

\* C16: uncommitted changes of the working tree that a merge request finds
\* are in the working tree, as they were, when the request has answered
\* with success.
C16_ChangesSurviveMerge ==
  [][\A t \in Tasks :
       (/\ MergeStep(t)
        /\ lastReply'.body \in {"merged", "already_merged"}
        /\ repo.tree # "clean")
         => repo'.tree = repo.tree /\ repo'.lost = repo.lost]_vars

\* C17: a merge request answers with the success of a completed merge only
\* when the feature branch is integrated into the base branch by a commit
\* and no unmerged path is left, and the plan then holds the status done and
\* a merged_at stamp.
C17_SuccessMeansIntegrated ==
  [][\A t \in Tasks :
       (MergeStep(t) /\ lastReply' = Reply("merge", t, "merged"))
         => /\ repo'.call.base \in repo'.integrated
            /\ repo'.commits = repo.commits + 1
            /\ ~repo'.merging
            /\ plan[t].exists =>
                 /\ plan'[t].exists
                 /\ plan'[t].status = "done"
                 /\ plan'[t].merged_at # 0]_vars

\* C18 as stated: the base branch of a merge request is the targetBranch if
\* given, else the parent_branch of the plan, else the branch that is
\* checked out (main or master come after it).
C18_BaseFromCurrentBranch ==
  [][\A t \in Tasks :
       MergeStep(t) =>
         repo'.call.base =
           IF repo'.call.target # "" THEN repo'.call.target
           ELSE IF plan[t].exists /\ plan[t].parent_branch # ""
                THEN plan[t].parent_branch
           ELSE head]_vars

\* C18: the base branch of a merge request is the targetBranch if given,
\* else the parent_branch of the plan, else main, or master when main does
\* not exist; the branch that is checked out plays no part.
C18_BasePrecedence ==
  [][\A t \in Tasks :
       MergeStep(t) =>
         repo'.call.base =
           IF repo'.call.target # "" THEN repo'.call.target
           ELSE IF plan[t].exists /\ plan[t].parent_branch # ""
                THEN plan[t].parent_branch
           ELSE IF "main" \in repo.branches THEN "main"
           ELSE "master"]_vars

\* a merge without targetBranch and parent_branch went to master, in a
\* repository without main, although dev exists
C18_Witness ==
  \E t \in Tasks :
    /\ lastReply = Reply("merge", t, "merged")
    /\ repo.call.target = ""
    /\ plan[t].exists /\ plan[t].parent_branch = ""
    /\ "main" \notin repo.branches /\ "dev" \in repo.branches
    /\ repo.call.base = "master" /\ head = "master"
    /\ "master" \in repo.integrated

\* C19: a discard request answers with success; after it neither the
\* worktree of the task nor its feature branch exists, and when neither
\* existed before, nothing is changed.
C19_DiscardRemovesBoth ==
  [][\A t \in Tasks :
       lastReply' = Reply("discard", t, "success") =>
         /\ ~hasWorktree'[t]
         /\ ~repo'.feature
         /\ (~hasWorktree[t] /\ ~repo.feature) =>
              UNCHANGED <<runningTasks, logWatchers, timers, logs, procs,
                          plan, wtPlan, hasWorktree, qaReport, head, repo,
                          merged>>]_vars

\* C20: a merge-preview request, answered from the try block or from the
\* catch block, leaves the checked-out branch, the working tree, the index,
\* the stash stack, the plans, the handle map and the watcher map as they
\* were.
C20_PreviewReadOnly ==
  [][\A t \in Tasks :
       (lastReply'.route = "merge-preview" /\ lastReply'.taskId = t) =>
         /\ lastReply'.body \in {"preview", "ready"}
         /\ UNCHANGED <<head, repo, plan, wtPlan, hasWorktree, qaReport,
                        logs, runningTasks, procs, logWatchers, timers,
                        merged>>]_vars

\* a preview answered from the catch block, in a repository that a failed
\* merge left on the base branch with unmerged paths and a stash entry
C20_Witness ==
  \E t \in Tasks :
    /\ lastReply = PreviewReply(t, "ready", "")
    /\ repo.merging
    /\ repo.stash # <<>>
    /\ head = "dev"

\* the task has no spec directory, no worktree and no feature branch
TaskAbsent(t) ==
  /\ ~plan[t].exists /\ ~wtPlan[t].exists
  /\ ~hasWorktree[t]
  /\ ~repo.feature

\* C21: a merge request for a task that does not exist is answered with an
\* error and changes nothing: no handle, no watcher, no event, and the
\* checked-out branch, the merge state, the stash stack and the files of the
\* working tree are as before.
C21_AbsentTaskNoEffect ==
  [][\A t \in Tasks :
       (MergeStep(t) /\ TaskAbsent(t)) =>
         /\ lastReply' = Reply("merge", t, "error")
         /\ published' = <<>>
         /\ Repository(repo') = Repository(repo)
         /\ UNCHANGED <<head, runningTasks, logWatchers, timers, procs,
                        plan, wtPlan, hasWorktree, qaReport, logs>>]_vars

\* --------------------------------------- the poll and what is on disk
\* the status values the worker writes into a plan ("" for none)
WrittenStatuses == {"", "coding", "ai_review"}

\* the worker writes task_logs.json with content that is not JSON, or with
\* the JSON of a falsy value
LogWriteOther(t) ==
  \E inWorktree \in BOOLEAN, kind \in {"malformed", "null"} :
    LET content == logs[t].main + logs[t].wt + 1
    IN /\ logs[t].main + logs[t].wt < MaxWrites
       /\ inWorktree => hasWorktree[t]
       /\ logs' = [logs EXCEPT ![t] =
                     IF inWorktree
                     THEN [@ EXCEPT !.wt = content, !.wtKind = kind,
                                    !.sent = 0]
                     ELSE [@ EXCEPT !.main = content, !.mainKind = kind,
                                    !.sent = 0]]
       /\ published' = <<>>
       /\ lastReply' = NoReply
       /\ UNCHANGED <<runningTasks, logWatchers, timers, procs, nextPid, plan,
                      wtPlan, hasWorktree, qaReport, head, listing, wsVars, logVars, callStack,
                      repo, now, merged>>

\* the worker rewrites a copy of implementation_plan.json, with a status or
\* with content that is not JSON
PlanWrite(t) ==
  \E inWorktree, malformed \in BOOLEAN, st \in WrittenStatuses :
    LET written(pl) == [pl EXCEPT !.status = IF malformed THEN "" ELSE st,
                                  !.bad = malformed]
    IN /\ IF inWorktree
          THEN wtPlan[t].exists /\ written(wtPlan[t]) # wtPlan[t]
          ELSE plan[t].exists /\ written(plan[t]) # plan[t]
       /\ malformed => st = ""
       /\ plan' = [plan EXCEPT ![t] = IF inWorktree THEN @ ELSE written(@)]
       /\ wtPlan' = [wtPlan EXCEPT ![t] =
                       IF inWorktree THEN written(@) ELSE @]
       /\ published' = <<>>
       /\ lastReply' = NoReply
       /\ UNCHANGED <<runningTasks, logWatchers, timers, procs, nextPid,
                      logs, hasWorktree, qaReport, head, listing, wsVars, logVars, callStack,
                      repo, now, merged>>

NextPoll ==
  \/ \E t \in Tasks : WatchLogs(t)
  \/ \E t \in Tasks : UnwatchLogs(t)
  \/ \E t \in Tasks : LogWrite(t)
  \/ \E t \in Tasks : LogWriteOther(t)
  \/ \E t \in Tasks : PlanWrite(t)
  \/ \E i \in TimerIds : WatcherTick(i)

SpecPoll == Init /\ [][NextPoll]_vars

\* ------------------------------------------------- the event broadcaster
\* everything but the WebSocket endpoint
serverVars ==
  <<runningTasks, logWatchers, timers, logs, procs, nextPid, plan, wtPlan,
    hasWorktree, qaReport, head, published, lastReply, listing, repo, now,
    merged, logFiles, taskLogs, callStack>>

\* a broadcast that sends on every socket the server ever accepted
wsBroadcast_All(ss, cs, m) ==
  [o \in Sockets |->
     IF ss[o].readyState # "NONE"
     THEN [ss[o] EXCEPT !.inbox = Append(@, m)] ELSE ss[o]]

\* function broadcast: wsClients.forEach(client => { if (client.readyState
\* === WebSocket.OPEN) client.send(message) })
wsBroadcast(ss, cs, m) ==
  [o \in Sockets |->
     IF o \in cs /\ ss[o].readyState = "OPEN"
     THEN [ss[o] EXCEPT !.inbox = Append(@, m)] ELSE ss[o]]

\* wss.on('connection'): wsClients.add(ws); sockets connect in their order
Connection(o) ==
  /\ sockets[o].readyState = "NONE"
  /\ \A q \in Sockets : q < o => sockets[q].readyState # "NONE"
  /\ wsClients' = wsClients \cup {o}
  /\ sockets' = [sockets EXCEPT ![o] =
                   [readyState |-> "OPEN", inbox |-> <<>>,
                    since |-> messages, until |-> -1]]
  /\ UNCHANGED <<messages, serverVars>>

\* the closing handshake of a socket starts: readyState is CLOSING until the
\* close event is emitted
BeginClose(o) ==
  /\ sockets[o].readyState = "OPEN"
  /\ sockets' = [sockets EXCEPT ![o].readyState = "CLOSING"]
  /\ UNCHANGED <<wsClients, messages, serverVars>>

\* ws.on('close'): wsClients.delete(ws)
OnClose(o) ==
  /\ sockets[o].readyState \in {"OPEN", "CLOSING"}
  /\ wsClients' = wsClients \ {o}
  /\ sockets' = [sockets EXCEPT
       ![o].readyState = "CLOSED",
       ![o].until = IF o \in wsClients THEN messages ELSE @]
  /\ UNCHANGED <<messages, serverVars>>

\* ws.on('error'): wsClients.delete(ws); the close event follows later
OnError(o) ==
  /\ sockets[o].readyState \in {"OPEN", "CLOSING"}
  /\ o \in wsClients
  /\ wsClients' = wsClients \ {o}
  /\ sockets' = [sockets EXCEPT ![o].until = messages]
  /\ UNCHANGED <<messages, serverVars>>

\* one call of broadcast(event, data), by whatever handler or callback
Broadcast ==
  /\ messages < MaxMessages
  /\ messages' = messages + 1
  /\ sockets' = wsBroadcast(sockets, wsClients, messages + 1)
  /\ UNCHANGED <<wsClients, serverVars>>

NextBroadcast ==
  \/ \E o \in Sockets : Connection(o)
  \/ \E o \in Sockets : BeginClose(o)
  \/ \E o \in Sockets : OnClose(o)
  \/ \E o \in Sockets : OnError(o)
  \/ Broadcast

\* the server at rest, for a task without artifacts
InitBroadcast ==
  /\ Init
  /\ \A t \in Tasks : ~plan[t].exists /\ ~hasWorktree[t]

SpecBroadcast == InitBroadcast /\ [][NextBroadcast]_vars

\* the positions of the inbox of socket o
Received(ss, o) == 1..Len(ss[o].inbox)

\* C22: a message is sent at most once on a socket, and only on sockets that
\* are in wsClients and OPEN when broadcast is called: a socket never gets a
\* message broadcast before its connection, nor one broadcast after its
\* close or error event.
C22_DeliveredToOpenClientsOnce ==
  [][\A o \in Sockets :
       /\ sockets'[o].inbox # sockets[o].inbox =>
            /\ o \in wsClients
            /\ sockets[o].readyState = "OPEN"
            /\ messages' = messages + 1
            /\ sockets'[o].inbox = Append(sockets[o].inbox, messages')
       /\ \A i, j \in Received(sockets', o) :
            i # j => sockets'[o].inbox[i] # sockets'[o].inbox[j]
       /\ \A i \in Received(sockets', o) :
            /\ sockets'[o].inbox[i] > sockets'[o].since
            /\ sockets'[o].until # -1 =>
                 sockets'[o].inbox[i] <= sockets'[o].until]_vars

\* the first socket got the first message and then had an error, the second
\* connected after that message and got the two that followed
C22_Witness ==
  /\ messages = 3
  /\ sockets[1].inbox = <<1>> /\ sockets[1].until = 1
  /\ sockets[1].readyState = "OPEN" /\ 1 \notin wsClients
  /\ sockets[2].since = 1 /\ sockets[2].inbox = <<2, 3>>

\* C23: no operation deletes a task: a plan that exists in the spec
\* directory of the project before a step exists after it.
C23_PlanNeverDeleted ==
  [][\A t \in Tasks : plan[t].exists => plan'[t].exists]_vars

\* worker p was superseded: another worker of its task is registered and
\* running
Superseded(p) ==
  LET q == runningTasks[procs[p].task]
  IN q # NoProc /\ q # p /\ procs[q].state = "running"

\* C24: the exit of a superseded worker leaves the handle and the watcher of
\* the newer worker in place, leaves the status of the plan alone and
\* publishes no statusChange.
C24_SupersededExitHarmless ==
  [][\A p \in Pids :
       (ExitedStep(p) /\ Superseded(p)) =>
         LET t == procs[p].task
         IN /\ runningTasks'[t] = runningTasks[t]
            /\ logWatchers'[t] = logWatchers[t]
            /\ timers' = timers
            /\ plan'[t].status = plan[t].status
            /\ wtPlan'[t].status = wtPlan[t].status
            /\ \A k \in 1..Len(published') :
                 published'[k].type # "statusChange"]_vars

\* the last handler was a stop of t that terminated a worker
JustStopped(t) ==
  /\ lastReply = Reply("stop", t, "success")
  /\ Len(published) = 1
  /\ published[1].type = "statusChange" /\ published[1].status = "stopped"

\* C25: when the worker that a stop terminated exits, with no start in
\* between, no statusChange other than stopped is published for the task and
\* the status of the plan is left as it was.
C25_StoppedStaysLast ==
  [][\A p \in Pids :
       (/\ ExitedStep(p)
        /\ procs[p].killed
        /\ JustStopped(procs[p].task)) =>
         LET t == procs[p].task
         IN /\ \A k \in 1..Len(published') :
                 (published'[k].type = "statusChange"
                  /\ published'[k].taskId = t)
                   => published'[k].status = "stopped"
            /\ plan'[t].status = plan[t].status]_vars

\* the step is a poll of the interval i: a callback that leaves the files
\* and the watcher map alone
PollOf(i) ==
  LET t == timers[i].task
  IN /\ timers[i].on
     /\ lastReply' = NoReply
     /\ logWatchers' = logWatchers /\ procs' = procs
     /\ plan' = plan /\ wtPlan' = wtPlan
     /\ [logs'[t] EXCEPT !.sent = 0] = [logs[t] EXCEPT !.sent = 0]

\* the statusChange events for t in a batch of events
StatusChanges(evs, t) ==
  {k \in 1..Len(evs) : evs[k].type = "statusChange" /\ evs[k].taskId = t}

\* the plan file of t a poll reads
PlanOnDisk(t) == IF wtPlan[t].exists THEN wtPlan[t] ELSE plan[t]

\* the plan of the task of interval i holds a status that the interval has
\* not recorded
StatusDue(i) ==
  LET f == PlanOnDisk(timers[i].task)
  IN /\ f.exists /\ ~f.bad
     /\ f.status # ""
     /\ f.status # timers[i].lastPlanStatus

\* C26: a poll publishes a statusChange exactly when the status of the plan
\* on disk (the worktree copy when it exists) is non-empty and differs from
\* the one the interval recorded last; it then publishes that status, once,
\* and records it; no other step changes what a pending interval recorded.
C26_StatusPublishedWhenChanged ==
  [][\A i \in TimerIds :
       LET t == timers[i].task
       IN /\ PollOf(i) =>
               IF StatusDue(i)
               THEN /\ Cardinality(StatusChanges(published', t)) = 1
                    /\ \A k \in StatusChanges(published', t) :
                         published'[k].status = PlanOnDisk(t).status
                    /\ timers'[i].lastPlanStatus = PlanOnDisk(t).status
               ELSE /\ StatusChanges(published', t) = {}
                    /\ timers'[i].lastPlanStatus = timers[i].lastPlanStatus
          /\ (/\ ~PollOf(i)
              /\ timers[i].on /\ timers'[i].on
              /\ lastReply'.route \notin {"watch", "start"})
               => timers'[i].lastPlanStatus = timers[i].lastPlanStatus]_vars

\* a poll published the status the worker wrote into the worktree copy of
\* the plan, which is not the one of the copy in the spec directory
C26_Witness ==
  \E t \in Tasks, i \in TimerIds :
    /\ timers[i].on /\ timers[i].task = t
    /\ lastReply = NoReply
    /\ wtPlan[t].exists /\ wtPlan[t].status = "ai_review"
    /\ plan[t].status \notin {"", "ai_review"}
    /\ timers[i].lastPlanStatus = "ai_review"
    /\ Len(published) = 1
    /\ published[1].type = "statusChange"
    /\ published[1].status = "ai_review"

\* a log file holds well-formed JSON that the interval i has not taken up
WellFormedPending(i) ==
  LET lg == logs[timers[i].task]
  IN \/ /\ lg.main # 0 /\ lg.main # timers[i].lastContent
        /\ lg.mainKind # "malformed"
     \/ /\ lg.wt # 0 /\ lg.wt # timers[i].lastWorktreeContent
        /\ lg.wtKind # "malformed"

\* what the last JSON.parse that succeeds in a poll of the interval i
\* returns: the worktree copy is parsed after the copy in the spec directory
LastParsed(i) ==
  LET lg == logs[timers[i].task]
  IN IF /\ lg.wt # 0 /\ lg.wt # timers[i].lastWorktreeContent
        /\ lg.wtKind # "malformed"
     THEN lg.wtKind
     ELSE IF /\ lg.main # 0 /\ lg.main # timers[i].lastContent
             /\ lg.mainKind # "malformed"
          THEN lg.mainKind
          ELSE "none"

\* C27 as stated: a poll keeps the watcher entry and its interval, publishes
\* nothing for malformed content, and publishes one logsChanged when a log
\* file holds changed well-formed content, one statusChange for a status
\* the interval has not recorded.
C27_WellFormedAlwaysPublished ==
  [][\A i \in TimerIds :
       PollOf(i) =>
         LET t == timers[i].task
         IN /\ timers'[i].on /\ timers'[i].task = t
            /\ logWatchers'[t] = logWatchers[t]
            /\ Cardinality(LogsChanged(published', t)) =
                 IF WellFormedPending(i) THEN 1 ELSE 0
            /\ PlanOnDisk(t).bad => StatusChanges(published', t) = {}
            /\ StatusDue(i) =>
                 Cardinality(StatusChanges(published', t)) = 1]_vars

\* C27: a poll keeps the watcher entry and its interval and publishes
\* nothing for malformed content; it publishes one logsChanged exactly when
\* the last changed log file it can parse holds a document (not a falsy
\* JSON value), and one statusChange for a status of a well-formed plan
\* that the interval has not recorded, whatever was malformed before.
C27_MalformedContentSkipped ==
  [][\A i \in TimerIds :
       PollOf(i) =>
         LET t == timers[i].task
         IN /\ timers'[i].on /\ timers'[i].task = t
            /\ logWatchers'[t] = logWatchers[t]
            /\ Cardinality(LogsChanged(published', t)) =
                 IF LastParsed(i) = "object" THEN 1 ELSE 0
            /\ PlanOnDisk(t).bad => StatusChanges(published', t) = {}
            /\ StatusDue(i) =>
                 Cardinality(StatusChanges(published', t)) = 1]_vars

\* with malformed content in the worktree copy of the log file and in the
\* plan, which was well-formed when the interval was set, a poll of the
\* interval published the document written into the other copy of the log
\* file, and nothing else
C27_Witness ==
  \E t \in Tasks, i \in TimerIds :
    /\ timers[i].on /\ timers[i].task = t
    /\ logWatchers[t] = [active |-> TRUE, interval |-> i]
    /\ lastReply = NoReply
    /\ logs[t].wt = 1 /\ logs[t].wtKind = "malformed"
    /\ timers[i].lastWorktreeContent = 1
    /\ logs[t].main = 2 /\ logs[t].mainKind = "object"
    /\ timers[i].lastContent = 2
    /\ PlanOnDisk(t).bad /\ timers[i].lastPlanStatus # ""
    /\ Len(published) = 1
    /\ published[1].type = "logsChanged"

\* C28 as stated: a path of the allow-list that a merge request resolved
\* holds the version of the feature branch, which for a path the feature
\* branch deleted (UD) is no file and for every other type its file.
C28_ResolvedToFeatureVersion ==
  \A f \in repo.resolved \cap AutoResolvableFiles :
    repo.content[f] = IF repo.types[f] = "UD" THEN "absent" ELSE "theirs"

\* C28: a path of the allow-list that a merge request resolved holds the
\* version of the feature branch when both sides modified or added it, and
\* is removed when either side deleted it.
C28_ResolvedByConflictType ==
  \A f \in repo.resolved \cap AutoResolvableFiles :
    repo.content[f] =
      IF repo.types[f] \in {"DU", "UD"} THEN "absent" ELSE "theirs"

\* a merge request answered with success resolved a conflict on
\* .auto-claude-status, deleted on the base branch and modified on the
\* feature branch, by removing the path
C28_Witness ==
  /\ lastReply = Reply("merge", "T1", "merged")
  /\ repo.resolved = {".auto-claude-status"}
  /\ repo.types[".auto-claude-status"] = "DU"
  /\ repo.content[".auto-claude-status"] = "absent"
  /\ repo.integrated # {}

\* C29: after a merge request that hit a submodule conflict, a merge that
\* was concluded records the submodule reference of the base branch, and
\* the request resolved no conflicting path outside the allow-list.
C29_SubmoduleKeptNothingElseResolved ==
  repo.call.submodule =>
    /\ repo.call.base \in repo.integrated => repo.gitlink = "base"
    /\ repo.resolved \ AutoResolvableFiles = {}

\* GET /api/tasks/:id/status: isRunning is runningTasks.has(taskId)
isRunning(t) == runningTasks[t] # NoProc

\* a start request for t whose worker could not be launched
FailedStart(t) ==
  /\ lastReply'.route = "start" /\ lastReply'.taskId = t
  /\ nextPid' = nextPid + 1
  /\ procs'[nextPid].state = "failed"

\* C30: after a start whose worker could not be launched, no handle and no
\* watcher is registered for the task, the status query does not report it
\* as running and the listing gives the status derived from its artifacts.
C30_FailedStartLeavesNothing ==
  [][\A t \in Tasks :
       FailedStart(t) =>
         /\ runningTasks'[t] = NoProc
         /\ ~logWatchers'[t].active
         /\ ~isRunning(t)'
         /\ TaskEntry(t)'.status =
              DerivedStatus(plan'[t], qaReport'[t]).status]_vars

\* C31: every live worker is the one registered for its task, so no task
\* has two live workers, and a step that takes the handle of a running
\* worker out of the map has sent it the termination signal unless the
\* step is its own exit.
C31_LiveWorkersTracked ==
  [][\A t \in Tasks :
       /\ \A p \in LiveWorkers(t)' : runningTasks'[t] = p
       /\ (/\ runningTasks[t] # NoProc
           /\ runningTasks'[t] # runningTasks[t]
           /\ procs'[runningTasks[t]].state = "running")
            => procs'[runningTasks[t]].killed]_vars

\* C32: the stash entries that were on the stack before a merge request are
\* on it, in the same order and at the same places, when the request has
\* answered.
C32_OnlyOwnStashEntryTaken ==
  [][\A t \in Tasks :
       MergeStep(t) =>
         /\ Len(repo'.stash) >= Len(repo.stash)
         /\ SubSeq(repo'.stash, 1, Len(repo.stash)) = repo.stash]_vars

\* ------------------------------------------------ merges next to a worker
\* merge requests for a task whose worker may be running: the merge handler
\* does not look at the handle map
NextMergeRunning ==
  \/ \E t \in Tasks : StartTask(t)
  \/ \E p \in Pids : StartExit(p)
  \/ \E t \in Tasks : Merge(t)

SpecMergeRunning == Init /\ [][NextMergeRunning]_vars

\* C33: the exit of a worker of a task whose plan holds the status done that
\* a merge persisted leaves that status in the plan.
C33_DoneSurvivesExit ==
  [][\A p \in Pids :
       LET t == procs[p].task
       IN (/\ ExitedStep(p)
           /\ t \in merged
           /\ plan[t].exists /\ plan[t].status = "done")
            => plan'[t].status = "done"]_vars

\* ------------------------------------------------ the delivered task logs
\* the largest number of entries a phase of a log document holds
MaxEntries == 1

PhaseStatuses == {"pending", "completed"}

\* the values a phase of the copy in `copy` can have: absent, or any status
\* with any number of entries
Phases(copy) ==
  {NoPhase} \cup
  {[status |-> s, entries |-> n, copy |-> copy] :
     s \in PhaseStatuses, n \in 0..MaxEntries}

\* what the task_logs.json of one place can parse to: nothing (missing or
\* malformed), a document without a phases object, or a document with phases
Docs(copy) ==
  {NoDoc, [NoDoc EXCEPT !.exists = TRUE]} \cup
  {[exists |-> TRUE, hasPhases |-> TRUE, planning |-> pl, coding |-> co,
    validation |-> va] :
     pl \in {NoPhase, [status |-> "completed", entries |-> 1, copy |-> copy]},
     co \in Phases(copy), va \in Phases(copy)}

\* JavaScript's `ph?.entries?.length > 0 || ph?.status !== 'pending'`: an
\* absent phase has the status undefined, which differs from 'pending'
FromWorktree(ph) == ph.entries > 0 \/ ph.status # "pending"

\* the merge of GET /api/tasks/:id/logs: the document of the only place that
\* has one; with both, planning is the primary's unless it has none, and
\* coding and validation are the worktree's when FromWorktree says so.
\* Reading worktreeLogs.phases.coding of a document without phases throws
TaskLogs(t, mainLogs, worktreeLogs) ==
  LET Of(d) == [via |-> "logs", taskId |-> t, planning |-> d.planning,
                coding |-> d.coding, validation |-> d.validation]
  IN IF ~worktreeLogs.exists
       THEN IF mainLogs.exists THEN Of(mainLogs)
            ELSE [via |-> "raw", taskId |-> t]
     ELSE IF ~mainLogs.exists THEN Of(worktreeLogs)
     ELSE IF ~worktreeLogs.hasPhases
       THEN [via |-> "error", taskId |-> t]
     ELSE [via |-> "logs", taskId |-> t,
           planning |-> IF mainLogs.planning # NoPhase
                          THEN mainLogs.planning
                          ELSE worktreeLogs.planning,
           coding |-> IF FromWorktree(worktreeLogs.coding)
                        THEN worktreeLogs.coding ELSE mainLogs.coding,
           validation |-> IF FromWorktree(worktreeLogs.validation)
                            THEN worktreeLogs.validation
                            ELSE mainLogs.validation]

\* GET /api/tasks/:id/logs
GetLogs(t) ==
  /\ taskLogs' = TaskLogs(t, logFiles[t].main, logFiles[t].worktree)
  /\ lastReply' = Reply("logs", t,
                        IF taskLogs'.via = "error" THEN "error" ELSE "ok")
  /\ published' = <<>>
  /\ UNCHANGED <<runningTasks, logWatchers, timers, logs, procs, nextPid,
                 plan, wtPlan, hasWorktree, qaReport, head, listing, wsVars,
                 logFiles, callStack, repo, now, merged>>

\* a tick of the log watcher that finds the mtime of one or both files
\* changed: newLogs is the document parsed last (the worktree's after the
\* primary's), and it alone is the payload of the logsChanged event
LogsChangedPayload(t, mainChanged, wtChanged) ==
  LET m == logFiles[t].main
      w == logFiles[t].worktree
      payload == IF wtChanged /\ w.exists THEN w
                  ELSE IF mainChanged /\ m.exists THEN m ELSE NoDoc
  IN /\ mainChanged \/ wtChanged
     /\ payload.exists
     /\ taskLogs' = [via |-> "logsChanged", taskId |-> t,
                     planning |-> payload.planning,
                     coding |-> payload.coding,
                     validation |-> payload.validation]
     /\ published' = broadcast(<<>>,
          Event("logsChanged", t, "", NoCode, Watcher, plan[t].status))
     /\ lastReply' = NoReply
     /\ UNCHANGED <<runningTasks, logWatchers, timers, logs, procs, nextPid,
                    plan, wtPlan, hasWorktree, qaReport, head, listing,
                    wsVars, logFiles, callStack, repo, now, merged>>

\* the worker (or anything else) has written any documents to the two places
InitLogs ==
  /\ runningTasks = [t \in Tasks |-> NoProc]
  /\ logWatchers = [t \in Tasks |-> NoWatcher]
  /\ timers = [i \in TimerIds |-> NoTimer]
  /\ logs = [t \in Tasks |-> NoLogs]
  /\ repo = RepoAtRest
  /\ now = 1
  /\ merged = {}
  /\ procs = [p \in Pids |-> NoChild]
  /\ nextPid = 1
  /\ \E a \in [Tasks -> InitArtifacts] :
       /\ plan = [t \in Tasks |-> a[t].plan]
       /\ hasWorktree = [t \in Tasks |-> a[t].hasWorktree]
       /\ wtPlan = [t \in Tasks |-> a[t].wtPlan]
  /\ qaReport = [t \in Tasks |-> NoReport]
  /\ head = "main"
  /\ published = <<>>
  /\ lastReply = NoReply
  /\ listing = [t \in Tasks |-> Derived("", "")]
  /\ wsClients = {}
  /\ sockets = [o \in Sockets |-> NoSocket]
  /\ messages = 0
  /\ logFiles \in [Tasks -> [main : Docs("main"), worktree : Docs("worktree")]]
  /\ taskLogs = NoTaskLogs
  /\ callStack = NoHandler

NextLogs ==
  \/ \E t \in Tasks : GetLogs(t)
  \/ \E t \in Tasks : \E mainChanged, wtChanged \in BOOLEAN :
       LogsChangedPayload(t, mainChanged, wtChanged)

SpecLogs == InitLogs /\ [][NextLogs]_vars

\* the phase the logs should hold: the worktree copy's if it is there with
\* an entry or a non-pending status, else the primary copy's
Expected(mainPhase, worktreePhase) ==
  IF worktreePhase # NoPhase
     /\ (worktreePhase.entries > 0 \/ worktreePhase.status # "pending")
    THEN worktreePhase ELSE mainPhase

\* both places hold a structured log document
BothStructured(t) ==
  /\ logFiles[t].main.exists /\ logFiles[t].main.hasPhases
  /\ logFiles[t].worktree.exists /\ logFiles[t].worktree.hasPhases

\* C34: when both the primary spec directory and the worktree mirror hold a
\* structured log document, the logs delivered for the task have the planning
\* phase of the primary copy, and each of the coding and validation phases of
\* the worktree copy if that phase has an entry or a non-pending status there,
\* and of the primary copy otherwise, also when the worktree copy has no such
\* phase
C34_MergePrecedence ==
  \A t \in Tasks :
    (taskLogs.via \in {"logs", "logsChanged", "error"}
     /\ taskLogs.taskId = t /\ BothStructured(t)) =>
      /\ taskLogs.via # "error"
      /\ taskLogs.planning = logFiles[t].main.planning
      /\ taskLogs.coding =
           Expected(logFiles[t].main.coding, logFiles[t].worktree.coding)
      /\ taskLogs.validation =
           Expected(logFiles[t].main.validation,
                    logFiles[t].worktree.validation)

\* C35: the preview is computed against the base branch a merge of the same
\* task and project would resolve: the parent_branch of the plan artifact
\* when it records one, else main or master
C35_PreviewAgainstMergeBase ==
  [][\A t \in Tasks :
       (/\ lastReply'.route = "merge-preview"
        /\ lastReply'.taskId = t
        /\ lastReply'.body = "preview") =>
         lastReply'.base = ResolveBase("", plan[t], repo, head)]_vars

\* ------------------------------------------------- the output of a worker
\* the largest number of lines in one chunk of output
MaxLines == 2

MarkerPhases == {"planning", "coding"}

\* a line of output: plain text, or a marker __TASK_LOG_PHASE_START__: or
\* __TASK_LOG_PHASE_END__: followed by a payload.  The payload is "ok" (a
\* JSON object in braces), "badjson" (braces that JSON.parse rejects) or
\* "nobrace" (no closing brace on the line, which /\{.*\}/ does not match)
TextLine == [kind |-> "text", payload |-> "", phase |-> "", success |-> FALSE]

Lines ==
  {TextLine} \cup
  {[kind |-> "start", payload |-> "ok", phase |-> ph, success |-> FALSE] :
     ph \in MarkerPhases} \cup
  {[kind |-> "end", payload |-> "ok", phase |-> ph, success |-> s] :
     ph \in MarkerPhases, s \in BOOLEAN} \cup
  {[kind |-> k, payload |-> pl, phase |-> "", success |-> FALSE] :
     k \in {"start", "end"}, pl \in {"badjson", "nobrace"}}

\* data.toString() of one 'data' event: one line or more
Chunks == UNION {[1..n -> Lines] : n \in 1..MaxLines}

\* broadcast('task:log', { taskId, log })
LogEvent(t, log, src, disk) ==
  [type |-> "log", taskId |-> t, status |-> "", code |-> NoCode,
   src |-> src, planStatusAtPublish |-> disk, log |-> log]

\* broadcast('task:executionProgress', { taskId, progress: { phase, status } })
ExecutionProgress(t, phase, st, src, disk) ==
  [type |-> "executionProgress", taskId |-> t, status |-> st,
   code |-> NoCode, src |-> src, planStatusAtPublish |-> disk,
   phase |-> phase]

\* log.includes(marker)
Includes(log, marker) == \E i \in 1..Len(log) : log[i].kind = marker

\* log.match(/marker:(\{.*\})/): the regular expression has no g flag and
\* `.` stops at the end of the line, so the match is the first line where
\* the marker is followed by braces; 0 is null
Match(log, marker) ==
  LET hits == {i \in 1..Len(log) :
                 log[i].kind = marker /\ log[i].payload # "nobrace"}
  IN IF hits = {} THEN 0 ELSE CHOOSE i \in hits : \A j \in hits : i <= j

\* one `if (log.includes(marker)) { try { ... } catch {} }` block: JSON.parse
\* of the match throws for "badjson" and the catch block ignores it
Parsed(evs, t, log, marker, src, disk) ==
  LET match == Match(log, marker)
  IN IF Includes(log, marker) /\ match # 0 /\ log[match].payload = "ok"
       THEN broadcast(evs,
              ExecutionProgress(t, log[match].phase,
                IF marker = "start" THEN "running"
                ELSE IF log[match].success THEN "completed" ELSE "failed",
                src, disk))
       ELSE evs

\* child.stdout.on('data'): the log event, then the start block, then the
\* end block
StdoutData(p, log) ==
  LET t == procs[p].task
      disk == plan[t].status
  IN /\ procs[p].state = "running"
     /\ procs' = [procs EXCEPT ![p].hasOutput = TRUE]
     /\ published' =
          Parsed(Parsed(broadcast(<<>>, LogEvent(t, log, p, disk)),
                        t, log, "start", p, disk),
                 t, log, "end", p, disk)
     /\ lastReply' = NoReply
     /\ UNCHANGED <<runningTasks, logWatchers, timers, nextPid, plan, wtPlan,
                    hasWorktree, qaReport, head, listing, wsVars, logVars, callStack,
                    logs, repo, now, merged>>

\* child.stderr.on('data'): the log event only
StderrData(p, log) ==
  LET t == procs[p].task
  IN /\ procs[p].state = "running"
     /\ procs' = [procs EXCEPT ![p].hasOutput = TRUE]
     /\ published' = broadcast(<<>>, LogEvent(t, log, p, plan[t].status))
     /\ lastReply' = NoReply
     /\ UNCHANGED <<runningTasks, logWatchers, timers, nextPid, plan, wtPlan,
                    hasWorktree, qaReport, head, listing, wsVars, logVars, callStack,
                    logs, repo, now, merged>>

NextOutput ==
  \/ \E t \in Tasks : StartTask(t)
  \/ \E p \in Pids : \E log \in Chunks : StdoutData(p, log)
  \/ \E p \in Pids : \E log \in Chunks : StderrData(p, log)
  \/ \E p \in Pids : StartExit(p)

SpecOutput == Init /\ [][NextOutput]_vars

\* the well-formed markers of a kind in a chunk
WellFormed(log, marker) ==
  {i \in 1..Len(log) : log[i].kind = marker /\ log[i].payload = "ok"}

\* the executionProgress events of a batch with this phase and status
ProgressEvents(evs, phase, st) ==
  {k \in 1..Len(evs) : /\ evs[k].type = "executionProgress"
                       /\ evs[k].phase = phase
                       /\ evs[k].status = st}

\* the status the claim names for a well-formed marker
MarkerStatus(line) ==
  IF line.kind = "start" THEN "running"
  ELSE IF line.success THEN "completed" ELSE "failed"

\* C36: every stdout chunk of a worker is published as one log event that
\* carries it; one executionProgress event is published for every
\* well-formed marker of the chunk, running for a start marker, completed
\* or failed for an end marker, and no other; the handle, the watcher and the
\* plan status are left unchanged
C36_EveryMarkerPublished ==
  [][\A p \in Pids : \A log \in Chunks :
       StdoutData(p, log) =>
         /\ published'[1] = LogEvent(procs[p].task, log, p,
                                     plan[procs[p].task].status)
         /\ \A ph \in MarkerPhases :
            \A st \in {"running", "completed", "failed"} :
              Cardinality(ProgressEvents(published', ph, st)) =
                Cardinality({i \in WellFormed(log, "start")
                               \cup WellFormed(log, "end") :
                               log[i].phase = ph /\ MarkerStatus(log[i]) = st})
         /\ UNCHANGED <<runningTasks, logWatchers, timers, plan>>]_vars

\* ------------------------------------------- the merge handler, by steps
\* The statements of POST /api/tasks/:id/worktree/merge one by one, each a
\* call of execSync or a file operation, with the call stack of the event
\* loop: a callback or handler is dispatched only when no handler holds the
\* stack.

\* whether the handler gives up the call stack after a git step: execSync
\* returns when git has exited, the handler has no await and no callback
\* an asynchronous exec, continued in its callback
Yields_Exec(step) == TRUE

Yields(step) == FALSE

\* the event loop takes the next callback or request
Dispatch == ~callStack.onStack

\* the handler at its next statement
At(t, step) ==
  [callStack EXCEPT !.pc = step, !.onStack = ~Yields(callStack.pc)]

\* the request arrives: baseBranch is resolved (3015-3038)
MergeEnter(t) ==
  \E targetBranch \in TargetBranches :
    /\ Dispatch
    /\ callStack.handler = ""
    /\ now <= MaxMerges
    /\ now' = now + 1
    /\ repo' = [repo EXCEPT
                  !.call = [NoCall EXCEPT
                              !.target = targetBranch,
                              !.base = ResolveBase(targetBranch, plan[t],
                                                   repo, head)],
                  !.resolved = {}, !.types = NoPaths, !.content = NoPaths]
    /\ callStack' = [handler |-> "merge", task |-> t, pc |-> "checkout",
                     onStack |-> TRUE, thrown |-> FALSE, removed |-> FALSE]
    /\ lastReply' = NoReply
    /\ published' = <<>>
    /\ UNCHANGED <<runningTasks, logWatchers, timers, procs, nextPid, plan,
                   wtPlan, hasWorktree, qaReport, head, listing, wsVars,
                   logVars, logs, merged>>

\* the handler returns with res.json(...)
Return(t, body) ==
  /\ callStack' = NoHandler
  /\ lastReply' = Reply("merge", t, body)

\* the next git step of the merge the handler is in.  clock is the time the
\* request arrived
MergeGit(t) ==
  LET pc == callStack.pc
      base == repo.call.base
      hasStash == repo.call.hasStash
      clock == now - 1
  IN /\ callStack.handler = "merge"
     /\ callStack.task = t
     /\ published' = <<>>
     /\ UNCHANGED <<runningTasks, logWatchers, timers, procs, nextPid,
                    wtPlan, hasWorktree, listing, wsVars, logVars, now>>
     /\ CASE pc = "checkout" ->
               \* git checkout baseBranch, already-merged check (3040-3083)
               \E switched \in SwitchAnswers(repo, head, base) :
                 IF ~switched
                 THEN /\ callStack' = [At(t, "catch") EXCEPT !.thrown = TRUE]
                      /\ lastReply' = NoReply
                      /\ UNCHANGED <<head, repo, plan, qaReport, logs, merged>>
                 ELSE IF AlreadyMerged(repo, base)
                 THEN /\ head' = base
                      /\ plan' = [plan EXCEPT
                                    ![t] = PersistAlreadyMerged(@, clock)]
                      /\ merged' = merged \cup {t}
                      /\ Return(t, "already_merged")
                      /\ UNCHANGED <<repo, qaReport, logs>>
                 ELSE /\ head' = base
                      /\ callStack' = At(t, "abort")
                      /\ lastReply' = NoReply
                      /\ UNCHANGED <<repo, plan, qaReport, logs, merged>>
          [] pc = "abort" ->
               \* git merge --abort (3085-3091)
               /\ repo' = [repo EXCEPT !.merging = FALSE, !.gitlink = "base"]
               /\ callStack' = At(t, "stash")
               /\ lastReply' = NoReply
               /\ UNCHANGED <<head, plan, qaReport, logs, merged>>
          [] pc = "stash" ->
               \* git status --porcelain, git stash push (3093-3105)
               /\ repo' = IF HasChanges(repo)
                          THEN [StashPush(repo) EXCEPT !.call.hasStash = TRUE]
                          ELSE repo
               /\ callStack' = At(t, "housekeeping")
               /\ lastReply' = NoReply
               /\ UNCHANGED <<head, plan, qaReport, logs, merged>>
          [] pc = "housekeeping" ->
               \* .gitignore, filesToClean, rmSync(localSpecDir) (3107-3139)
               LET removed == SpecDirRemoved(Housekeeping(repo), plan[t])
               IN /\ repo' = Housekeeping(repo)
                  /\ plan' = [plan EXCEPT ![t] = IF removed THEN NoPlan ELSE @]
                  /\ qaReport' = [qaReport EXCEPT
                                    ![t] = IF removed THEN NoReport ELSE @]
                  /\ logs' = [logs EXCEPT
                                ![t].main = IF removed THEN 0 ELSE @]
                  /\ callStack' = [At(t, "merge") EXCEPT !.removed = removed]
                  /\ lastReply' = NoReply
                  /\ UNCHANGED <<head, merged>>
          [] pc = "merge" ->
               \* git merge and the conflict resolution (3141-3222)
               \E res \in PossibleResults(repo) :
               \E committed \in CommitAnswers(repo, res) :
               \E carries \in IF callStack.removed /\ wtPlan[t].exists
                              THEN BOOLEAN ELSE {FALSE} :
                 LET att == MergeAttempt(repo, base, res, committed)
                 IN /\ repo' = [att.repo EXCEPT
                                  !.call.attempted = TRUE,
                                  !.call.submodule = res.submodule]
                    /\ plan' = [plan EXCEPT
                                  ![t] = IF ~att.thrown /\ carries
                                         THEN wtPlan[t] ELSE @]
                    /\ callStack' = [At(t, IF att.thrown THEN "catch"
                                           ELSE "pop")
                                       EXCEPT !.thrown = att.thrown]
                    /\ lastReply' = NoReply
                    /\ UNCHANGED <<head, qaReport, logs, merged>>
          [] pc = "pop" ->
               \* git stash pop, git stash drop (3224-3236)
               \E applied \in PopAnswers(repo, hasStash) :
                 /\ repo' = RestoreOnSuccess(repo, hasStash, applied)
                 /\ callStack' = At(t, "persist")
                 /\ lastReply' = NoReply
                 /\ UNCHANGED <<head, plan, qaReport, logs, merged>>
          [] pc = "persist" ->
               \* plan.status = 'done', plan.merged_at (3238-3254)
               /\ plan' = [plan EXCEPT ![t] = PersistDone(@, clock)]
               /\ merged' = merged \cup {t}
               /\ Return(t, "merged")
               /\ UNCHANGED <<head, repo, qaReport, logs>>
          [] pc = "catch" ->
               \* catch: git stash pop (3256-3268)
               \E applied \in PopAnswers(repo, hasStash) :
                 /\ repo' = RestoreOnError(repo, hasStash, applied)
                 /\ Return(t, "error")
                 /\ UNCHANGED <<head, plan, qaReport, logs, merged>>

\* a task in human review, its worktree in place, no worker yet
InitLoop ==
  /\ Init
  /\ \A t \in Tasks : plan[t].status = "human_review"

\* the handlers and callbacks the event loop can take between two steps;
\* a start is requested for a task without a handle only
NextLoop ==
  \/ \E t \in Tasks :
       Dispatch /\ runningTasks[t] = NoProc /\ StartTask(t)
  \/ \E p \in Pids : Dispatch /\ StartExit(p)
  \/ \E i \in TimerIds : Dispatch /\ WatcherTick(i)
  \/ \E t \in Tasks : Dispatch /\ Discard(t)
  \/ \E t \in Tasks : MergeEnter(t)
  \/ \E t \in Tasks : MergeGit(t)

SpecLoop == InitLoop /\ [][NextLoop]_vars

\* a merge call has begun and not returned
InMerge == callStack.handler = "merge"

\* C37: from the first git step of a merge call to its answer, every step
\* of the server is the next git step of that call: no other merge or
\* discard, no watcher tick and no exit handler runs in between
C37_MergeUninterrupted ==
  [][InMerge => MergeGit(callStack.task)]_vars

\* a merge call between git merge and git stash pop while a worker runs
\* and the interval of a watcher is installed
C37_Witness ==
  /\ InMerge
  /\ callStack.pc = "pop"
  /\ \E p \in Pids : Live(p)
  /\ \E i \in TimerIds : timers[i].on

====
